---- MODULE Spec2Model ----
(***************************************************************************)
(* MeterFlow: usage-event ingestion (authentication, rate limiting,        *)
(* validation, deduplication, storage, backup) and the sliding-window      *)
(* rate limiter, modelled as state machines over the Redis keys and the    *)
(* ClickHouse events table they share; and the usage queries, the volume   *)
(* anomaly check and the pattern fraud check, which read the events table  *)
(* and the weekday baselines kept in Redis.                                *)
(*                                                                         *)
(* Numbers that the source computes in floating point are carried as exact *)
(* rationals (numerator and denominator), square roots by their squares.   *)
(*                                                                         *)
(* Time is counted in seconds.  The source compares event timestamps in    *)
(* milliseconds (validateEvent) and Redis TTLs and sorted-set scores in    *)
(* seconds; every millisecond quantity is carried here divided by 1000.    *)
(***************************************************************************)
EXTENDS Integers, Sequences, FiniteSets

----------------------------------------------------------------------------
(* Bounds of the model *)

MaxReq == 2          \* ingestion requests (POST /v1/events) in one behaviour
MaxBatch == 2        \* events in one batch
MaxEvents == 3       \* events in all the batches of one behaviour
MaxInFlight == 2     \* ingestion requests being processed at the same time
MaxTicks == 1        \* clock advances in the ingestion specification
MaxCallers == 2      \* checkRateLimit calls running at the same time
MaxAtt == 3          \* checkRateLimit calls in one behaviour
MaxRateTicks == 2    \* clock advances in the rate limiter specification
MaxLimit == 2        \* largest rate_limit stored in an ApiKeyRecord
MaxValue == 4        \* largest daily aggregate in a baseline reply of checkAnomaly
MaxSamples == 4      \* days in a baseline reply of checkAnomaly
MaxRows == 2         \* rows of the events table the queries are run on
MaxProperty == 2     \* largest value of a numeric property of a stored event
MaxDim == 2          \* longest vector cosineSimilarity is applied to
MaxElement == 2      \* largest element of such a vector

----------------------------------------------------------------------------
(* Program constants *)

DEDUP_TTL_SECONDS == 30 * 24 * 60 * 60
RATE_LIMIT_WINDOW_SECONDS == 60
fiveMinutes == 5 * 60
thirtyDays == 30 * 24 * 60 * 60

----------------------------------------------------------------------------
(* Inputs *)

Customers == {"acme", "globex"}
TxOrder == <<"t1", "t2">>
TxIds == { TxOrder[i] : i \in 1 .. Len(TxOrder) }
TxRank(id) == CHOOSE i \in 1 .. Len(TxOrder) : TxOrder[i] = id
NoCustomer == "none"

\* API keys presented by clients: one provisioned key per customer, a key
\* that is not provisioned, and no key at all.
ApiKeys == {"k_acme", "k_globex", "k_unknown", "k_missing"}

\* the keys whose checkRateLimit calls the rate limiter specification follows,
\* one key in a behaviour
RateKeys == {"k_acme", "k_globex"}

Reqs == 1 .. MaxReq        \* ingestion requests, in order of arrival
Callers == 1 .. MaxAtt     \* checkRateLimit calls, in order of their start

VARIABLES
  now,        \* wall clock (Date.now()), seconds
  rateKey,    \* the key the rate limiter specification follows
  clocks,     \* the clock readings at which clients may have stamped events
  nticks,     \* number of clock advances so far
  clocked,    \* TRUE in the behaviours where the clock advances
  dedup,      \* Redis dedup:{transaction_id} -> time the key was set, -1 if absent
  dedupBy,    \* history: customer whose request wrote the key
  rl,         \* Redis ratelimit:{customer_id} sorted set: set of [m, score]
  rlTtl,      \* expiry time of the ratelimit:{customer_id} key, -1 if none
  events,     \* ClickHouse events table: rows in insertion order
  backups,    \* MinIO: number of batch objects written
  nreq,       \* number of ingestion requests received so far
  nevents,    \* number of events received in batches so far
  req,        \* the requests being processed (IdleReq: not arrived, or answered)
  answered,   \* the request answered by the latest step, with its response
  outcomes,   \* history: per transaction id, the numbers of "OK" and of null replies
  natt,       \* number of checkRateLimit calls started so far
  att,        \* the checkRateLimit calls in progress (IdleAtt: not started, or returned)
  returned,   \* the checkRateLimit call that returned in the latest step
  allowedLog, \* history: the calls that returned allowed = true
  baselines,  \* Redis baseline:{customer_id}:{metric}:{weekday} -> record, or NoBaseline
  lastCall    \* the latest query or check: its arguments, and its result once returned

vars == <<now, rateKey, clocks, nticks, clocked, dedup, dedupBy, rl, rlTtl, events, backups,
          nreq, nevents, req, answered, outcomes, natt, att, returned, allowedLog,
          baselines, lastCall>>

analyticsOnly == <<baselines, lastCall>>
requestState == <<now, rateKey, clocks, nticks, clocked, dedup, dedupBy, rl, rlTtl, backups,
                  nreq, nevents, req, answered, outcomes, natt, att, returned, allowedLog>>
rateOnly == <<rateKey, natt, att, returned, allowedLog, analyticsOnly>>
ingestOnly == <<rateKey, clocked, dedup, dedupBy, events, backups, nreq, nevents, req, answered,
                outcomes, analyticsOnly>>

----------------------------------------------------------------------------
(* Events and validation *)

Event(tx, c, ts) == [transaction_id |-> tx, customer_id |-> c, timestamp |-> ts]

\* offsets of the timestamp a client stamps on the events of a batch from
\* its clock reading: the largest clock skew validation tolerates, and one
\* second more
TsOffsets == {fiveMinutes, fiveMinutes + 1}

\* transaction ids of a batch, listed in nondecreasing order
RECURSIVE IdSeqs(_)
IdSeqs(n) ==
  IF n = 0 THEN { <<>> }
  ELSE UNION { { Append(s, id) :
                   id \in { x \in TxIds :
                              s = <<>> \/ TxRank(x) >= TxRank(s[Len(s)]) } } :
               s \in IdSeqs(n - 1) }

BatchIds == UNION { IdSeqs(n) : n \in 1 .. MaxBatch }

\* the batches whose events a client stamped at clock reading t
BatchesStamped(t) ==
  { [i \in 1 .. Len(ids) |-> Event(ids[i], c, t + o)] :
      ids \in BatchIds,
      c \in Customers, o \in TsOffsets }

validIdPattern(s) == s \in TxIds \cup Customers

validateEvent(event, t) ==
  IF event.timestamp > t + fiveMinutes
    THEN [valid |-> FALSE, reason |-> "Timestamp is in the future"]
  ELSE IF event.timestamp < t - thirtyDays
    THEN [valid |-> FALSE, reason |-> "Timestamp is older than 30 days"]
  ELSE IF ~ validIdPattern(event.transaction_id)
    THEN [valid |-> FALSE, reason |-> "Invalid transaction_id format"]
  ELSE IF ~ validIdPattern(event.customer_id)
    THEN [valid |-> FALSE, reason |-> "Invalid customer_id format"]
  ELSE [valid |-> TRUE, reason |-> ""]

----------------------------------------------------------------------------
(* Sequence helpers *)

RECURSIVE SelectSeqBy(_, _, _)
SelectSeqBy(s, keep, i) ==
  IF i > Len(s) THEN <<>>
  ELSE IF keep[i] THEN <<s[i]>> \o SelectSeqBy(s, keep, i + 1)
  ELSE SelectSeqBy(s, keep, i + 1)

Range(s) == { s[i] : i \in 1 .. Len(s) }

----------------------------------------------------------------------------
(* Redis commands *)

\* a key written with EX ttl at time setAt is gone once ttl seconds passed
KeyLive(setAt, ttl, t) == setAt >= 0 /\ t < setAt + ttl

\* the Redis keys: `dedup:${transactionId}`, `ratelimit:${customerId}`
dedupKey(transactionId) == transactionId

\* one sorted set for all customers
rateLimitKeyShared(customerId) == "acme"

rateLimitKey(customerId) == customerId

\* SET key 1 EX ttl, the NX option left out: the key is always written
SetWithoutNX(store, key, ttl, t) ==
  [store |-> [store EXCEPT ![key] = t], reply |-> "OK"]

\* SET key 1 EX ttl NX: "OK" and the key written when the key is absent
\* (or expired), null (here "nil") and nothing written when it is present.
SetNX(store, key, ttl, t) ==
  IF KeyLive(store[key], ttl, t)
    THEN [store |-> store, reply |-> "nil"]
    ELSE [store |-> [store EXCEPT ![key] = t], reply |-> "OK"]

\* checkAndMarkTransaction: one SET NX, true iff the reply is "OK"
checkAndMarkTransaction(store, transactionId, t) ==
  LET res == SetNX(store, dedupKey(transactionId), DEDUP_TTL_SECONDS, t)
  IN  [store |-> res.store, isNew |-> (res.reply = "OK")]

\* ZREMRANGEBYSCORE key min (max: the upper end excluded
ZRemRangeByScoreExclusive(zset, min, max) ==
  { e \in zset : ~ (min <= e.score /\ e.score < max) }

\* ZREMRANGEBYSCORE key min max
ZRemRangeByScore(zset, min, max) ==
  { e \in zset : ~ (min <= e.score /\ e.score <= max) }

\* ZADD key score member (members are unique per attempt)
ZAdd(zset, score, member) ==
  { e \in zset : e.m # member } \cup { [m |-> member, score |-> score] }

\* a count that leaves the attempt just recorded out
ZCardBeforeRecord(zset) == Cardinality(zset) - 1

\* ZCARD key
ZCard(zset) == Cardinality(zset)

\* EXPIRE key seconds, issued at time t: the time the key is deleted
Expire(t, seconds) == t + seconds

\* the records written by provisionApiKey (apikey:{key}): one key per
\* customer, with the smallest and the largest rate_limit; no key is
\* provisioned or revoked while requests are served
ApiKeyRecords ==
  [k \in {"k_acme", "k_globex"} |->
     IF k = "k_acme" THEN [customer_id |-> "acme", rate_limit |-> 1]
     ELSE [customer_id |-> "globex", rate_limit |-> MaxLimit]]

\* lookupApiKey: the ApiKeyRecord of a provisioned key, null otherwise
lookupApiKey(apiKey) ==
  IF apiKey \in DOMAIN ApiKeyRecords
    THEN ApiKeyRecords[apiKey]
    ELSE [customer_id |-> NoCustomer, rate_limit |-> 0]

----------------------------------------------------------------------------
(* checkRateLimit, executed as one unit (the four pipelined commands with   *)
(* no other client's command between them)                                  *)

\* a limiter that counts the attempt against one slot fewer
RateLimitResultStrict(currentCount, limit) ==
  [allowed |-> currentCount < limit,
   limit |-> limit,
   remaining |-> IF limit - currentCount > 0 THEN limit - currentCount ELSE 0,
   reset_in_seconds |-> RATE_LIMIT_WINDOW_SECONDS]

RateLimitResult(currentCount, limit) ==
  [allowed |-> currentCount <= limit,
   limit |-> limit,
   remaining |-> IF limit - currentCount > 0 THEN limit - currentCount ELSE 0,
   reset_in_seconds |-> RATE_LIMIT_WINDOW_SECONDS]

\* a window that still holds the entries that are exactly 60 s old
WindowStartLate(nowSeconds) == nowSeconds - RATE_LIMIT_WINDOW_SECONDS - 1

WindowStart(nowSeconds) == nowSeconds - RATE_LIMIT_WINDOW_SECONDS

\* count-then-record: an attempt that is denied is not recorded
checkRateLimitCountFirst(zset, member, limit, t) ==
  LET z1 == ZRemRangeByScore(zset, 0, WindowStart(t))
      result == RateLimitResult(ZCard(z1) + 1, limit)
  IN  [zset |-> IF result.allowed THEN ZAdd(z1, t, member) ELSE z1,
       ttlAt |-> Expire(t, RATE_LIMIT_WINDOW_SECONDS + 1),
       result |-> result]

checkRateLimit(zset, member, limit, t) ==
  LET windowStart == WindowStart(t)
      z1 == ZRemRangeByScore(zset, 0, windowStart)
      z2 == ZAdd(z1, t, member)
  IN  [zset |-> z2,
       ttlAt |-> Expire(t, RATE_LIMIT_WINDOW_SECONDS + 1),
       result |-> RateLimitResult(ZCard(z2), limit)]

----------------------------------------------------------------------------
(* checkAndMarkTransactions: the map built from the pipeline replies        *)

\* a map in which the first reply of an id decides its entry
RECURSIVE dedupResultsFirstWins(_, _, _)
dedupResultsFirstWins(ids, replies, i) ==
  IF i = 0 THEN [x \in {} |-> FALSE]
  ELSE LET prev == dedupResultsFirstWins(ids, replies, i - 1)
       IN  [x \in (DOMAIN prev) \cup {ids[i]} |->
              IF x \in DOMAIN prev THEN prev[x] ELSE replies[i] = "OK"]

\* results.set(transactionIds[i], result === 'OK') for i = 0 .. n-1: the
\* entry of an id is decided by the reply of its last command
RECURSIVE dedupResults(_, _, _)
dedupResults(ids, replies, i) ==
  IF i = 0 THEN [x \in {} |-> FALSE]
  ELSE LET prev == dedupResults(ids, replies, i - 1)
       IN  [x \in (DOMAIN prev) \cup {ids[i]} |->
              IF x = ids[i] THEN replies[i] = "OK" ELSE prev[x]]

TransactionIds(validEvents) ==
  [i \in 1 .. Len(validEvents) |-> validEvents[i].transaction_id]

----------------------------------------------------------------------------
(* Requests *)

\* pc: "idle" (not being processed), "dedup" (handler waits for the replies of the
\* dedup pipeline), "insert", "backup", "done" (response sent)
IdleReq ==
  [pc |-> "idle", status |-> 0, cause |-> "", cust |-> NoCustomer,
   member |-> 0, batch |-> <<>>, valid |-> <<>>, ids |-> <<>>,
   failed |-> <<>>, replies |-> <<>>, accepted |-> <<>>, duplicates |-> <<>>,
   inserted |-> 0, storeErr |-> "", hdr |-> <<>>, resp |-> <<>>]

InFlight(r) == req[r].pc # "idle"

\* a checkRateLimit call; pc: the next command Redis executes for it
IdleAtt ==
  [pc |-> "idle", cust |-> NoCustomer, limit |-> 0, nowSeconds |-> 0,
   member |-> 0, count |-> 0 - 1, alone |-> TRUE,
   snap |-> {}, post |-> {}, status |-> 0, result |-> <<>>, hdr |-> <<>>]

Busy(a) == att[a].pc # "idle"

----------------------------------------------------------------------------
(* Metrics catalog, and the state the queries and checks work on *)

METRICS_CATALOG ==
  { [code |-> "api_calls",    event_type |-> "api_request", aggregation |-> "COUNT",
     property |-> "none"],
    [code |-> "bandwidth",    event_type |-> "api_request", aggregation |-> "SUM",
     property |-> "bytes"],
    [code |-> "storage_peak", event_type |-> "storage",     aggregation |-> "MAX",
     property |-> "gb_stored"],
    [code |-> "compute_time", event_type |-> "compute",     aggregation |-> "SUM",
     property |-> "cpu_ms"] }

NoMetric == [code |-> "undefined"]

\* METRICS_CATALOG.find(m => m.code === code)
getMetric(code) ==
  IF \E m \in METRICS_CATALOG : m.code = code
  THEN CHOOSE m \in METRICS_CATALOG : m.code = code
  ELSE NoMetric

\* the metric codes callers pass: three of the catalog (one per aggregation)
\* and one that is not in it
MetricCodes == {"api_calls", "bandwidth", "storage_peak", "no_such_metric"}

Weekdays == <<"sunday", "monday", "tuesday", "wednesday", "thursday", "friday", "saturday">>

\* baseline:{customer_id}:{metric}:{weekday}
baselineKey(customer_id, metric, weekday) == <<customer_id, metric, weekday>>

\* the store of baselines with no key set
NoBaselines == [k \in {} |-> [set |-> TRUE]]

\* redis.get of a key that is not set
NoBaseline == [set |-> FALSE]

\* no query or check is under way
IdleCall == [op |-> "none"]

\* the result of a call that has not returned
NoResult == [error |-> "pending"]

InitIdle ==
  /\ now = thirtyDays + fiveMinutes
  /\ clocks = {now}
  /\ nticks = 0
  /\ dedup = [id \in TxIds |-> 0 - 1]
  /\ dedupBy = [id \in TxIds |-> NoCustomer]
  /\ rl = [c \in Customers |-> {}]
  /\ rlTtl = [c \in Customers |-> 0 - 1]
  /\ backups = 0
  /\ nreq = 0
  /\ nevents = 0
  /\ req = [r \in Reqs |-> IdleReq]
  /\ answered = IdleReq
  /\ outcomes = [id \in TxIds |-> [OK |-> 0, nil |-> 0]]
  /\ natt = 0
  /\ att = [a \in Callers |-> IdleAtt]
  /\ returned = IdleAtt
  /\ allowedLog = {}
  /\ baselines = NoBaselines

InitStore == InitIdle /\ events = <<>> /\ lastCall = IdleCall

\* an error or rejection response: the request ends
Reply(q, status, cause) ==
  [q EXCEPT !.pc = "done", !.status = status, !.cause = cause,
            !.batch = <<>>, !.valid = <<>>, !.accepted = <<>>]

\* the 200 response of POST /v1/events
Respond(q, accepted, duplicates) ==
  [q EXCEPT !.pc = "done", !.status = 200,
            !.batch = <<>>, !.valid = <<>>, !.accepted = <<>>,
            !.duplicates = duplicates,
            !.resp = << [accepted |-> Len(accepted),
                         duplicates |-> Len(duplicates),
                         failed |-> q.failed] >>]

\* the handler of request r goes on as q, or has sent q's response
Proceed(r, q) ==
  IF q.pc = "done"
    THEN /\ req' = [req EXCEPT ![r] = IdleReq]
         /\ answered' = q
    ELSE /\ req' = [req EXCEPT ![r] = q]
         /\ answered' = IdleReq

\* batches a client may send: events stamped now, or stamped at an earlier
\* clock reading and sent late or sent again (a retry)
BatchInputs == UNION { BatchesStamped(t) : t \in clocks }

----------------------------------------------------------------------------
(* POST /v1/events *)

\* authenticateHook (preHandler 1): the request after the hook, cust set
\* when the key resolved to a customer
authenticateHook(q, apiKey, batch) ==
  LET keyRecord == lookupApiKey(apiKey)
      authCustomerId == keyRecord.customer_id
      foreign == { i \in 1 .. Len(batch) : batch[i].customer_id # authCustomerId }
  IN  IF apiKey = "k_missing" THEN Reply(q, 401, "auth")
      ELSE IF authCustomerId = NoCustomer THEN Reply(q, 401, "auth")
      ELSE IF foreign # {}
        THEN Reply([q EXCEPT !.cust = authCustomerId], 403, "auth")
      ELSE [q EXCEPT !.pc = "ratelimit", !.cust = authCustomerId, !.batch = batch]

\* a hook that passes the request on without the limiter's answer
rateLimitHookSkipped(q, out, ok, cardOk) == [q EXCEPT !.pc = "handler"]

\* rateLimitHook (preHandler 2) given the outcome of checkRateLimit;
\* ok: the pipeline returned replies, cardOk: the ZCARD reply has no error
rateLimitHook(q, out, ok, cardOk) ==
  LET result == out.result
      hdr == << [limit |-> result.limit, remaining |-> result.remaining,
                 reset |-> result.reset_in_seconds] >>
  IN  IF ~ ok \/ ~ cardOk THEN Reply(q, 500, "ratelimit")
      ELSE IF ~ result.allowed THEN Reply([q EXCEPT !.hdr = hdr], 429, "denied")
      ELSE [q EXCEPT !.pc = "handler", !.hdr = hdr]

\* handler step 1: validate each event; with no valid event the handler
\* answers at once, else it issues the dedup pipeline
validateBatch(q, t) ==
  LET batch == q.batch
      ok == [i \in 1 .. Len(batch) |-> validateEvent(batch[i], t).valid]
      validEvents == SelectSeqBy(batch, ok, 1)
      failed == SelectSeqBy(
                  [i \in 1 .. Len(batch) |->
                     [transaction_id |-> batch[i].transaction_id,
                      reason |-> validateEvent(batch[i], t).reason]],
                  [i \in 1 .. Len(batch) |-> ~ ok[i]], 1)
      q0 == [q EXCEPT !.batch = <<>>, !.valid = validEvents, !.failed = failed,
                      !.ids = TransactionIds(validEvents)]
  IN  IF Len(validEvents) > 0 THEN [q0 EXCEPT !.pc = "dedup"]
      ELSE Respond(q0, <<>>, <<>>)

\* the effect of the two preHandler hooks and the validation loop on the
\* request and on the customer's ratelimit key
Admit(r, q1, apiKey, ok, cardOk) ==
  LET c == rateLimitKey(q1.cust)
      limit == lookupApiKey(apiKey).rate_limit
      out == checkRateLimit(rl[c], q1.member, limit, now)
      q2 == rateLimitHook([q1 EXCEPT !.storeErr =
                              IF ok /\ cardOk THEN "" ELSE "ratelimit"],
                          out, ok, cardOk)
  IN  /\ IF ok THEN /\ rl' = [rl EXCEPT ![c] = out.zset]
                    /\ rlTtl' = [rlTtl EXCEPT ![c] = out.ttlAt]
               ELSE UNCHANGED <<rl, rlTtl>>
      /\ Proceed(r, IF q2.pc = "done" THEN q2 ELSE validateBatch(q2, now))

\* The next request arrives and runs up to its first dedup command: authenticateHook, rateLimitHook (the checkRateLimit
\* pipeline as one unit) and the validation loop of the handler.
Receive(r) ==
  /\ r = nreq + 1
  /\ Cardinality({ q \in Reqs : InFlight(q) }) < MaxInFlight
  /\ clocked => \A q \in Reqs : ~ InFlight(q)
  /\ nreq < MaxReq
  /\ nreq' = nreq + 1
  /\ \E apiKey \in ApiKeys :
       LET q0 == [IdleReq EXCEPT !.member = nreq + 1]
       IN  IF authenticateHook(q0, apiKey, <<>>).status = 401
             THEN /\ Proceed(r, authenticateHook(q0, apiKey, <<>>))
                  /\ UNCHANGED <<rl, rlTtl, nevents>>
             ELSE \E batch \in BatchInputs :
                    LET q1 == authenticateHook(q0, apiKey, batch)
                    IN  /\ nevents + Len(batch) <= MaxEvents
                        /\ nevents' = nevents + Len(batch)
                        /\ IF q1.pc = "done"
                             THEN /\ Proceed(r, q1)
                                  /\ UNCHANGED <<rl, rlTtl>>
                             ELSE \E ok \in BOOLEAN, cardOk \in BOOLEAN :
                                    /\ (~ ok => cardOk)
                                    /\ Admit(r, q1, apiKey, ok, cardOk)
  /\ UNCHANGED rateOnly
  /\ UNCHANGED <<now, clocks, nticks, clocked, dedup, dedupBy, events, backups, outcomes>>

\* pipeline.exec() returned null: no command was executed
DedupPipelineNull(r) ==
  /\ req[r].pc = "dedup"
  /\ req[r].replies = <<>>
  /\ Proceed(r, Reply([req[r] EXCEPT !.storeErr = "dedup"], 500, "dedup"))
  /\ UNCHANGED rateOnly
  /\ UNCHANGED <<now, clocks, nticks, clocked, dedup, dedupBy, rl, rlTtl, events, backups, nreq, nevents, outcomes>>

\* the replies split without the check for an error reply
AfterDedupNoThrow(q, replies) ==
  LET q1 == [q EXCEPT !.replies = replies]
      ids == q.ids
      results == dedupResults(ids, replies, Len(ids))
      isNew == [i \in 1 .. Len(ids) |-> results[ids[i]]]
      accepted == SelectSeqBy(q.valid, isNew, 1)
      duplicates == SelectSeqBy(ids, [i \in 1 .. Len(ids) |-> ~ isNew[i]], 1)
  IN  IF Len(accepted) > 0
        THEN [q1 EXCEPT !.pc = "insert", !.accepted = accepted, !.duplicates = duplicates]
      ELSE Respond(q1, accepted, duplicates)

\* handler step 2 once all replies are in: throw on an error reply, else
\* split the valid events into accepted and duplicates
AfterDedup(q, replies) ==
  LET q1 == [q EXCEPT !.replies = replies]
      ids == q.ids
      results == dedupResults(ids, replies, Len(ids))
      isNew == [i \in 1 .. Len(ids) |-> results[ids[i]]]
      accepted == SelectSeqBy(q.valid, isNew, 1)
      duplicates == SelectSeqBy(ids, [i \in 1 .. Len(ids) |-> ~ isNew[i]], 1)
  IN  IF \E i \in 1 .. Len(replies) : replies[i] = "err"
        THEN Reply(q1, 500, "dedup")
      ELSE IF Len(accepted) > 0
        THEN [q1 EXCEPT !.pc = "insert", !.accepted = accepted, !.duplicates = duplicates]
      ELSE Respond(q1, accepted, duplicates)

\* Redis executes the next SET NX of the request's pipeline; cmdOk = FALSE:
\* this command replies with an error and writes nothing
DedupExec(r, cmdOk) ==
  /\ req[r].pc = "dedup"
  /\ LET i == Len(req[r].replies) + 1
         id == req[r].ids[i]
         res == checkAndMarkTransaction(dedup, id, now)
         reply == IF ~ cmdOk THEN "err" ELSE IF res.isNew THEN "OK" ELSE "nil"
         replies == Append(req[r].replies, reply)
     IN  /\ dedup' = IF cmdOk THEN res.store ELSE dedup
         /\ dedupBy' = IF cmdOk /\ res.store # dedup
                         THEN [dedupBy EXCEPT ![id] = req[r].cust] ELSE dedupBy
         /\ outcomes' = IF cmdOk
                           THEN [outcomes EXCEPT ![id] = [@ EXCEPT ![reply] = @ + 1]]
                           ELSE outcomes
         /\ LET q == [req[r] EXCEPT !.storeErr = IF cmdOk THEN @ ELSE "dedup"]
            IN  Proceed(r, IF i = Len(q.ids)
                             THEN AfterDedup(q, replies)
                             ELSE [q EXCEPT !.replies = replies])
  /\ UNCHANGED rateOnly
  /\ UNCHANGED <<now, clocks, nticks, clocked, rl, rlTtl, events, backups, nreq, nevents>>

\* rows written by insertEvents for the accepted events (history: the
\* request that inserted the row)
Rows(accepted, by) ==
  [i \in 1 .. Len(accepted) |->
     [transaction_id |-> accepted[i].transaction_id,
      customer_id |-> accepted[i].customer_id,
      timestamp |-> accepted[i].timestamp,
      by |-> by]]

\* handler step 3: insertEvents(accepted)
InsertEvents(r, ok) ==
  /\ req[r].pc = "insert"
  /\ IF ok
       THEN /\ events' = events \o Rows(req[r].accepted, req[r].member)
            /\ Proceed(r, [req[r] EXCEPT !.pc = "backup",
                                          !.inserted = Len(req[r].accepted)])
       ELSE /\ Proceed(r, Reply(req[r], 500, "insert"))
            /\ UNCHANGED events
  /\ UNCHANGED rateOnly
  /\ UNCHANGED <<now, clocks, nticks, clocked, dedup, dedupBy, rl, rlTtl, backups, nreq, nevents, outcomes>>

\* handler step 4: backupEvents(accepted), then the 200 response
BackupEvents(r, ok) ==
  /\ req[r].pc = "backup"
  /\ IF ok
       THEN /\ backups' = backups + 1
            /\ Proceed(r, Respond(req[r], req[r].accepted, req[r].duplicates))
       ELSE /\ Proceed(r, Reply(req[r], 500, "backup"))
            /\ UNCHANGED backups
  /\ UNCHANGED rateOnly
  /\ UNCHANGED <<now, clocks, nticks, clocked, dedup, dedupBy, rl, rlTtl, events, nreq, nevents, outcomes>>

\* Redis deletes the ratelimit keys whose TTL has run out at time t
ExpireKeys(t) ==
  LET gone(c) == rlTtl[c] >= 0 /\ t >= rlTtl[c]
  IN  [zset |-> [c \in Customers |-> IF gone(c) THEN {} ELSE rl[c]],
       ttlAt |-> [c \in Customers |-> IF gone(c) THEN 0 - 1 ELSE rlTtl[c]]]

\* the clock advances between requests (a request takes less than a second)
TickSteps ==
  {DEDUP_TTL_SECONDS - 1, DEDUP_TTL_SECONDS, DEDUP_TTL_SECONDS + fiveMinutes + 1}

Tick ==
  /\ clocked
  /\ nticks < MaxTicks
  /\ nticks' = nticks + 1
  /\ \A r \in Reqs : ~ InFlight(r)
  /\ \E d \in TickSteps : now' = now + d
  /\ clocks' = clocks \cup {now'}
  /\ rl' = ExpireKeys(now').zset
  /\ rlTtl' = ExpireKeys(now').ttlAt
  /\ UNCHANGED rateOnly
  /\ answered' = IdleReq
  /\ UNCHANGED <<clocked, dedup, dedupBy, events, backups, nreq, nevents, req, outcomes>>

Next ==
  \/ \E r \in Reqs : Receive(r)
  \/ \E r \in Reqs : DedupPipelineNull(r)
  \/ \E r \in Reqs, cmdOk \in BOOLEAN : DedupExec(r, cmdOk)
  \/ \E r \in Reqs, ok \in BOOLEAN : InsertEvents(r, ok)
  \/ \E r \in Reqs, ok \in BOOLEAN : BackupEvents(r, ok)

\* concurrent requests at one clock reading
Init == InitStore /\ clocked = FALSE /\ rateKey = "k_acme"

Spec == Init /\ [][Next]_vars

\* requests one after the other, the clock advancing between them
InitClock == InitStore /\ clocked = TRUE /\ rateKey = "k_acme"

NextClock == Next \/ Tick

SpecClock == InitClock /\ [][NextClock]_vars

----------------------------------------------------------------------------
(* rateLimitHook -> checkRateLimit, command by command: the four commands  *)
(* of a pipeline are executed in order, and the commands of other          *)
(* pipelines may be executed between them.                                 *)

\* lines 33-37: read the clock, build the member; the pipeline is sent
Sample(a, apiKey) ==
  /\ a = natt + 1
  /\ Cardinality({ b \in Callers : Busy(b) }) < MaxCallers
  /\ natt < MaxAtt
  /\ apiKey = rateKey
  /\ lookupApiKey(apiKey).customer_id # NoCustomer
  /\ natt' = natt + 1
  /\ LET c == lookupApiKey(apiKey).customer_id
     IN  att' = [att EXCEPT ![a] =
           [IdleAtt EXCEPT !.pc = "zrem", !.cust = c,
                           !.limit = lookupApiKey(apiKey).rate_limit,
                           !.nowSeconds = now, !.member = natt + 1,
                           !.snap = rl[rateLimitKey(c)]]]
  /\ returned' = IdleAtt
  /\ UNCHANGED <<now, clocks, nticks, rl, rlTtl, allowedLog>>
  /\ UNCHANGED ingestOnly

\* the other calls of the same customer no longer run alone (history:
\* the snapshot is kept for the calls that run alone only)
Disturb(a, c) ==
  [b \in Callers |->
     IF b # a /\ Busy(b) /\ att[b].cust = c
       THEN [att[b] EXCEPT !.alone = FALSE, !.snap = {}] ELSE att[b]]

\* the call of caller a has returned as q
Return(a, q) ==
  /\ att' = [att EXCEPT ![a] = IdleAtt]
  /\ returned' = q

\* pipeline.exec() returned null: no command was executed, the call throws
RatePipelineNull(a) ==
  /\ att[a].pc = "zrem"
  /\ Return(a, [att[a] EXCEPT !.pc = "done", !.status = 500])
  /\ UNCHANGED <<now, clocks, nticks, rl, rlTtl, natt, allowedLog>>
  /\ UNCHANGED ingestOnly

\* pipeline.zremrangebyscore(key, 0, windowStart)
CmdZrem(a) ==
  /\ att[a].pc = "zrem"
  /\ LET c == rateLimitKey(att[a].cust)
         windowStart == WindowStart(att[a].nowSeconds)
     IN  /\ rl' = [rl EXCEPT ![c] = ZRemRangeByScore(rl[c], 0, windowStart)]
         \* a sorted set left empty is deleted, and its TTL with it
         /\ rlTtl' = IF rl'[c] = {} THEN [rlTtl EXCEPT ![c] = 0 - 1] ELSE rlTtl
         /\ att' = [Disturb(a, att[a].cust) EXCEPT ![a].pc = "zadd"]
  /\ returned' = IdleAtt
  /\ UNCHANGED <<now, clocks, nticks, natt, allowedLog>>
  /\ UNCHANGED ingestOnly

\* pipeline.zadd(key, nowSeconds, member); a key created here has no TTL
CmdZadd(a) ==
  /\ att[a].pc = "zadd"
  /\ LET c == rateLimitKey(att[a].cust)
     IN  /\ rl' = [rl EXCEPT ![c] = ZAdd(rl[c], att[a].nowSeconds, att[a].member)]
         /\ att' = [Disturb(a, att[a].cust) EXCEPT ![a].pc = "zcard"]
  /\ returned' = IdleAtt
  /\ UNCHANGED <<now, clocks, nticks, rlTtl, natt, allowedLog>>
  /\ UNCHANGED ingestOnly

\* pipeline.zcard(key); cardOk = FALSE: the reply carries an error
CmdZcard(a, cardOk) ==
  /\ att[a].pc = "zcard"
  /\ att' = [att EXCEPT ![a].pc = "expire",
                        ![a].count = IF cardOk THEN ZCard(rl[rateLimitKey(att[a].cust)])
                                     ELSE 0 - 1]
  /\ returned' = IdleAtt
  /\ UNCHANGED <<now, clocks, nticks, rl, rlTtl, natt, allowedLog>>
  /\ UNCHANGED ingestOnly

\* pipeline.expire(key, window + 1), then lines 45-61 and the hook: the
\* call throws on a ZCARD error, else it returns the result; the hook sets
\* the X-RateLimit-* headers and answers 429 when the call is not allowed
CmdExpire(a) ==
  /\ att[a].pc = "expire"
  /\ LET c == rateLimitKey(att[a].cust)
         result == RateLimitResult(att[a].count, att[a].limit)
         hdr == [limit |-> result.limit, remaining |-> result.remaining,
                 reset |-> result.reset_in_seconds]
     IN  /\ rlTtl' = [rlTtl EXCEPT ![c] =
                        IF rl[c] = {} THEN 0 - 1
                        ELSE Expire(now, RATE_LIMIT_WINDOW_SECONDS + 1)]
         /\ IF att[a].count < 0
              THEN /\ Return(a, [att[a] EXCEPT !.pc = "done", !.status = 500])
                   /\ UNCHANGED allowedLog
              ELSE /\ Return(a, [att[a] EXCEPT
                                   !.pc = "done",
                                   !.post = IF att[a].alone THEN rl[c] ELSE {},
                                   !.result = <<result>>,
                                   !.hdr = <<hdr>>,
                                   !.status = IF result.allowed THEN 0 ELSE 429])
                   /\ allowedLog' =
                        IF result.allowed
                          THEN allowedLog \cup
                                 { [cust |-> att[a].cust, score |-> att[a].nowSeconds,
                                    member |-> att[a].member] }
                          ELSE allowedLog
  /\ UNCHANGED <<now, clocks, nticks, rl, natt>>
  /\ UNCHANGED ingestOnly

RateTickSteps == {1, RATE_LIMIT_WINDOW_SECONDS - 1}

\* the clock advances: by any step while no call is in progress, and into
\* the next second while calls are in progress (a call takes far less than
\* a second, but the second may change once under it)
TickRate ==
  /\ nticks < MaxRateTicks
  /\ nticks' = nticks + 1
  /\ \E d \in RateTickSteps :
       /\ (d > 1 => \A a \in Callers : ~ Busy(a))
       /\ \A a \in Callers : Busy(a) => att[a].nowSeconds = now
       /\ now' = now + d
  /\ rl' = ExpireKeys(now').zset
  /\ rlTtl' = ExpireKeys(now').ttlAt
  /\ att' = [a \in Callers |->
               IF Busy(a) THEN [att[a] EXCEPT !.alone = FALSE, !.snap = {}]
               ELSE att[a]]
  /\ returned' = IdleAtt
  /\ UNCHANGED <<clocks, natt, allowedLog>>
  /\ UNCHANGED ingestOnly

NextRate ==
  \/ \E a \in Callers, k \in RateKeys : Sample(a, k)
  \/ \E a \in Callers : RatePipelineNull(a)
  \/ \E a \in Callers : CmdZrem(a)
  \/ \E a \in Callers : CmdZadd(a)
  \/ \E a \in Callers, cardOk \in BOOLEAN : CmdZcard(a, cardOk)
  \/ \E a \in Callers : CmdExpire(a)
  \/ TickRate

InitRate == InitStore /\ clocked = FALSE /\ rateKey \in RateKeys

SpecRate == InitRate /\ [][NextRate]_vars

----------------------------------------------------------------------------
(* Arithmetic helpers: the source's floating-point numbers as exact rationals *)

Abs(x) == IF x < 0 THEN 0 - x ELSE x

Sign(x) == IF x < 0 THEN 0 - 1 ELSE IF x > 0 THEN 1 ELSE 0

RECURSIVE Gcd(_, _)
Gcd(a, b) == IF b = 0 THEN a ELSE Gcd(b, a % b)

\* the function f itself; the comparison makes the model checker compute
\* the values of f once instead of at every application
Evaluated(f) == IF f = <<>> THEN <<>> ELSE f

\* values.reduce((a, b) => a + b, 0)
RECURSIVE SumSeq(_)
SumSeq(s) == IF s = <<>> THEN 0 ELSE Head(s) + SumSeq(Tail(s))

\* Math.round(x * scale) for x = p / q >= 0 (q > 0): halves go up
RoundRatio(p, q, scale) == (2 * scale * p + q) \div (2 * q)

\* the integer part of the square root of n >= 0, by bisection
RECURSIVE IsqrtIn(_, _, _)
IsqrtIn(lo, hi, n) ==
  IF hi - lo <= 1
  THEN lo
  ELSE LET mid == (lo + hi) \div 2
       IN  IF mid * mid <= n THEN IsqrtIn(mid, hi, n) ELSE IsqrtIn(lo, mid, n)

Isqrt(n) == IsqrtIn(0, IF n + 1 < 46341 THEN n + 1 ELSE 46341, n)

\* the integer part of k^2 * p / q (p >= 0, q > 0), divided in two steps to
\* keep the products small
ScaledFloor(p, q, k) ==
  LET a == (k * p) \div q
      r == (k * p) % q
  IN  k * a + (k * r) \div q

\* k^2 * p / q is an integer
ScaledExact(p, q, k) == (k * p) % q = 0 \/ (k * ((k * p) % q)) % q = 0

\* Math.round(x * scale) for x = sqrt(p / q) >= 0: halves go up, so it is
\* the least m with (2m + 1)^2 > 4 * scale^2 * p / q
RoundRoot(p, q, scale) == (Isqrt(ScaledFloor(p, q, 2 * scale)) + 1) \div 2

\* Math.round(x * scale) for x = - sqrt(p / q) <= 0, as its absolute value:
\* halves go towards zero, so it is the least m with
\* (2m + 1)^2 >= 4 * scale^2 * p / q
RoundNegRoot(p, q, scale) ==
  LET X == ScaledFloor(p, q, 2 * scale) + (IF ScaledExact(p, q, 2 * scale) THEN 0 ELSE 1)
      r == Isqrt(X)
  IN  (IF r * r = X THEN r ELSE r + 1) \div 2

----------------------------------------------------------------------------
(* checkAnomaly: z-score of the current period's value against the daily   *)
(* values of the baseline period.  The replies of ClickHouse to the two    *)
(* aggregate queries are inputs; a threshold is carried in hundredths.     *)

DEFAULT_THRESHOLD == 3

\* the current-period aggregate, rows[0]?.value ?? 0
CurrentValues == 0 .. MaxValue + 1

\* the baseline rows, one aggregate per day that has events
DailyValues == UNION { [1 .. n -> 0 .. MaxValue] : n \in 0 .. MaxSamples }

\* thresholds a caller passes, in hundredths: 0, the default 3, and 3.5
Thresholds == {0, 100 * DEFAULT_THRESHOLD, 350}

\* sum over the samples of (n * v - S)^2, which is n^2 times the sum of the
\* squared differences from the mean S / n
SquaredDiffs(values) ==
  LET n == Len(values)
      S == SumSeq(values)
  IN  SumSeq([i \in 1 .. n |-> (n * values[i] - S) * (n * values[i] - S)])

\* stddev > 0, for stddev = sqrt(variance), variance = squaredDiffs / (n - 1)
\* computed only when sampleCount > 1, and 0 otherwise
StddevPositive(values) == Len(values) > 1 /\ SquaredDiffs(values) > 0

\* threshold * 0.66
WarningFactor == [num |-> 66, den |-> 100]

\* zScore before rounding: infinite, or sign * sqrt(num / den)
zScoreOf(currentValue, values) ==
  LET n == Len(values)
      S == SumSeq(values)
      D == n * currentValue - S     \* n * (currentValue - mean)
  IN  IF n = 0
      THEN [inf |-> FALSE, sign |-> 0, num |-> 0, den |-> 1]
      ELSE IF StddevPositive(values)
      THEN [inf |-> FALSE, sign |-> Sign(D), num |-> D * D * (n - 1),
            den |-> SquaredDiffs(values)]
      ELSE IF D # 0
      THEN [inf |-> TRUE, sign |-> Sign(D), num |-> 1, den |-> 1]
      ELSE [inf |-> FALSE, sign |-> 0, num |-> 0, den |-> 1]

\* Math.abs(zScore) >= a / b, for a >= 0 and b > 0
AbsZAtLeast(z, a, b) == z.inf \/ z.num * b * b >= a * a * z.den

\* the comparison against the rounded z-score in place of the computed one
AbsRoundedAtLeast(z, a, b) ==
  \/ z.inf
  \/ LET m == IF z.sign < 0 THEN RoundNegRoot(z.num, z.den, 100)
                            ELSE RoundRoot(z.num, z.den, 100)
     IN  m * b >= 100 * a

\* a / b in lowest terms (a >= 0, b > 0)
Reduced(a, b) == [num |-> a \div Gcd(a, b), den |-> b \div Gcd(a, b)]

\* the severity ladder applied to the rounded z-score
severityOfRounded(z, threshold) ==
  LET t == Reduced(threshold, 100)
      w == Reduced(WarningFactor.num * threshold, WarningFactor.den * 100)
  IN  IF AbsRoundedAtLeast(z, t.num, t.den)
      THEN "critical"
      ELSE IF AbsRoundedAtLeast(z, w.num, w.den)
      THEN "warning"
      ELSE "normal"

\* the severity ladder of checkAnomaly: absZ >= threshold, then
\* absZ >= threshold * 0.66
severityOf(z, threshold) ==
  LET t == Reduced(threshold, 100)
      w == Reduced(WarningFactor.num * threshold, WarningFactor.den * 100)
  IN  IF AbsZAtLeast(z, t.num, t.den)
      THEN "critical"
      ELSE IF AbsZAtLeast(z, w.num, w.den)
      THEN "warning"
      ELSE "normal"

\* Math.round(zScore * 100) / 100, in hundredths; an infinite z-score stays
\* infinite
RoundedZ(z) ==
  IF z.inf
  THEN [inf |-> TRUE, sign |-> z.sign, hundredths |-> 0]
  ELSE [inf |-> FALSE, sign |-> z.sign,
        hundredths |-> IF z.sign < 0
                       THEN 0 - RoundNegRoot(z.num, z.den, 100)
                       ELSE RoundRoot(z.num, z.den, 100)]

UnknownMetric(code) == [error |-> "Unknown metric", metric |-> code]

checkAnomaly(metric, currentValue, values, threshold) ==
  IF getMetric(metric) = NoMetric
  THEN UnknownMetric(metric)
  ELSE
    LET n == Len(values)
        z == zScoreOf(currentValue, values)
        severity == severityOf(z, threshold)
    IN  [error |-> "none",
         metric |-> metric,
         current_value |-> currentValue,
         baseline |->
           [mean |-> IF n > 0 THEN RoundRatio(SumSeq(values), n, 100) ELSE 0,
            stddev |-> IF StddevPositive(values)
                       THEN RoundRoot(SquaredDiffs(values), n * n * (n - 1), 100)
                       ELSE 0,
            sample_count |-> n],
         z_score |-> RoundedZ(z),
         is_anomaly |-> (severity = "critical"),
         severity |-> severity]

\* the calls of checkAnomaly.  The metric decides whether the call is
\* rejected and which queries are sent; the replies to the two queries are
\* inputs, and a call with an unknown metric sends no query.
AnomalyCalls ==
  { [op |-> "checkAnomaly", pc |-> "called", metric |-> metric,
     currentValue |-> currentValue, values |-> values, threshold |-> threshold,
     result |-> NoResult] :
      metric \in { c \in MetricCodes : getMetric(c) # NoMetric /\ getMetric(c).aggregation = "SUM" },
      currentValue \in CurrentValues, values \in DailyValues, threshold \in Thresholds }
  \cup
  { [op |-> "checkAnomaly", pc |-> "called", metric |-> metric,
     currentValue |-> 0, values |-> <<>>, threshold |-> threshold,
     result |-> NoResult] :
      metric \in { c \in MetricCodes : getMetric(c) = NoMetric }, threshold \in Thresholds }

\* GET /v1/anomalies/check: the call of checkAnomaly returns
CheckAnomaly ==
  /\ lastCall.op = "checkAnomaly"
  /\ lastCall.pc = "called"
  /\ lastCall' = [lastCall EXCEPT
                    !.pc = "returned",
                    !.result = checkAnomaly(lastCall.metric, lastCall.currentValue,
                                            lastCall.values, lastCall.threshold)]
  /\ UNCHANGED <<requestState, events, baselines>>

NextAnomaly == CheckAnomaly

InitAnomaly ==
  /\ InitIdle
  /\ clocked = FALSE
  /\ rateKey = "k_acme"
  /\ events = <<>>
  /\ lastCall \in AnomalyCalls

SpecAnomaly == InitAnomaly /\ [][NextAnomaly]_vars

----------------------------------------------------------------------------
(* The events table as the queries read it.  A stored row carries the      *)
(* event's customer_id, event_type, timestamp and properties; properties   *)
(* is a function from the property names the event has to their values.    *)

SecondsPerHour == 60 * 60
SecondsPerDay == 24 * SecondsPerHour

\* toDate(timestamp) and toHour(timestamp), days counted from the epoch, UTC
toDate(ts) == ts \div SecondsPerDay
toHour(ts) == (ts % SecondsPerDay) \div SecondsPerHour

\* the timestamp of an hour of a day
HourOf(day, hour) == day * SecondsPerDay + hour * SecondsPerHour

\* the current day and the day before it
today == toDate(thirtyDays + fiveMinutes)
yesterday == today - 1

StoredRow(c, type, ts, properties) ==
  [customer_id |-> c, event_type |-> type, timestamp |-> ts, properties |-> properties]

\* properties with the numeric property p set to the element of vs, and the
\* string property "region" set to the element of rs (either may be empty:
\* the event lacks the property)
Properties(p, vs, rs) ==
  [k \in { p : x \in vs } \cup { "region" : x \in rs } |->
     IF k = p THEN CHOOSE x \in vs : TRUE ELSE CHOOSE x \in rs : TRUE]

\* the property a metric of the catalog reads on events of a type
PropertyOf(type) == IF type = "api_request" THEN "bytes" ELSE "gb_stored"

\* JSONExtractFloat(properties, key): 0 when the key is absent
JSONExtractFloat(properties, key) ==
  IF key \in DOMAIN properties THEN properties[key] ELSE 0

\* JSONExtractString(properties, key): '' when the key is absent
JSONExtractString(properties, key) ==
  IF key \in DOMAIN properties THEN properties[key] ELSE ""

\* a set as a sequence, in some fixed order
RECURSIVE SeqOf(_)
SeqOf(S) ==
  IF S = {} THEN <<>>
  ELSE LET x == CHOOSE y \in S : TRUE IN <<x>> \o SeqOf(S \ {x})

\* the index sequences of length n over 1 .. k, listed in nondecreasing order
RECURSIVE IndexSeqs(_, _)
IndexSeqs(n, k) ==
  IF n = 0 THEN { <<>> }
  ELSE UNION { { Append(s, i) : i \in { j \in 1 .. k : s = <<>> \/ j >= s[Len(s)] } } :
               s \in IndexSeqs(n - 1, k) }

\* the tables of at most n rows drawn from the rows U: the queries do not
\* depend on the order of insertion, so one order of each multiset is kept
Tables(U, n) ==
  LET u == SeqOf(U)
  IN  { [i \in 1 .. Len(s) |-> u[s[i]]] : s \in UNION { IndexSeqs(m, Len(u)) : m \in 0 .. n } }

\* sum and extremes of a function f over a finite set S of its domain
RECURSIVE SumOver(_, _)
SumOver(S, f) ==
  IF S = {} THEN 0
  ELSE LET x == CHOOSE y \in S : TRUE IN f[x] + SumOver(S \ {x}, f)

MaxOver(S, f) == LET x == CHOOSE y \in S : \A z \in S : f[z] <= f[y] IN f[x]
MinOver(S, f) == LET x == CHOOSE y \in S : \A z \in S : f[z] >= f[y] IN f[x]

\* WHERE customer_id = .. AND event_type = .. AND timestamp >= .. AND
\* timestamp <= ..: the indices of the matching rows
MatchingRows(table, customer_id, metricDef, start, end) ==
  { i \in DOMAIN table :
      /\ table[i].customer_id = customer_id
      /\ table[i].event_type = metricDef.event_type
      /\ table[i].timestamp >= start
      /\ table[i].timestamp <= end }

\* count(), sum(JSONExtractFloat(properties, p)) or
\* max(JSONExtractFloat(properties, p)) over a non-empty group of rows
AggregateOf(table, metricDef, rows) ==
  LET v == [i \in rows |-> JSONExtractFloat(table[i].properties, metricDef.property)]
  IN  IF metricDef.aggregation = "COUNT" THEN Cardinality(rows)
      ELSE IF metricDef.aggregation = "SUM" THEN SumOver(rows, v)
      ELSE MaxOver(rows, v)

\* the aggregate without GROUP BY: one row even when nothing matches, with
\* the aggregate function's value over no rows, 0
AggregateAll(table, metricDef, rows) ==
  IF rows = {} THEN 0 ELSE AggregateOf(table, metricDef, rows)

----------------------------------------------------------------------------
(* queryUsage *)

\* const key = row.dimension || '(empty)'
BreakdownKey(dimension) == IF dimension = "" THEN "(empty)" ELSE dimension

\* for (const row of rows) { breakdown[key] = row.value; total += row.value }
\* over the rows of the GROUP BY query, which come ORDER BY value DESC: a key
\* that two dimensions share keeps the value of the later row, the smaller
GroupedUsage(table, metricDef, rows, group_by) ==
  LET dim(i) == JSONExtractString(table[i].properties, group_by)
      dims == { dim(i) : i \in rows }
      group(d) == { i \in rows : dim(i) = d }
      value == [d \in dims |-> AggregateOf(table, metricDef, group(d))]
      keys == { BreakdownKey(d) : d \in dims }
  IN  [value |-> SumOver(dims, value),
       breakdown |-> [k \in keys |-> MinOver({ d \in dims : BreakdownKey(d) = k }, value)]]

\* a response without the breakdown field
NoBreakdown == [x \in {} |-> 0]

queryUsage(table, customer_id, metric, start, end, group_by) ==
  LET metricDef == getMetric(metric)
      rows == MatchingRows(table, customer_id, metricDef, start, end)
  IN  IF metricDef = NoMetric
      THEN UnknownMetric(metric)
      ELSE IF group_by # ""
      THEN LET g == GroupedUsage(table, metricDef, rows, group_by)
           IN  [error |-> "none", metric |-> metric, value |-> g.value,
                grouped |-> TRUE, breakdown |-> g.breakdown]
      ELSE [error |-> "none", metric |-> metric,
            value |-> AggregateAll(table, metricDef, rows),
            grouped |-> FALSE, breakdown |-> NoBreakdown]

\* the rows the usage queries are run on: events of acme of two types, inside
\* and before the queried range, with and without the metric's property and
\* the grouping property; and one event of globex
UsageRows ==
  { StoredRow("acme", type, ts, Properties(PropertyOf(type), vs, rs)) :
      type \in {"api_request", "storage"},
      ts \in {HourOf(yesterday, 0), HourOf(yesterday - 1, 23)},
      vs \in {{}, {MaxProperty}},
      rs \in {{}, {"eu"}, {"(empty)"}} }
  \cup { StoredRow("globex", "api_request", HourOf(yesterday, 0),
                   Properties("bytes", {MaxProperty}, {"eu"})) }

\* the queried range: yesterday, both ends included
UsageRange == [start |-> HourOf(yesterday, 0), end |-> HourOf(today, 0)]

UsageCalls ==
  { [op |-> "queryUsage", pc |-> "called", customer_id |-> c, metric |-> metric,
     start |-> UsageRange.start, end |-> UsageRange.end, group_by |-> g,
     result |-> NoResult] :
      c \in Customers, metric \in MetricCodes, g \in {"", "region"} }

\* GET /v1/usage: the call of queryUsage returns
QueryUsage ==
  /\ lastCall.op = "queryUsage"
  /\ lastCall.pc = "called"
  /\ lastCall' = [lastCall EXCEPT
                    !.pc = "returned",
                    !.result = queryUsage(events, lastCall.customer_id, lastCall.metric,
                                          lastCall.start, lastCall.end, lastCall.group_by)]
  /\ UNCHANGED <<requestState, events, baselines>>

NextUsage == QueryUsage

InitUsage ==
  /\ InitIdle
  /\ clocked = FALSE
  /\ rateKey = "k_acme"
  /\ events \in Tables(UsageRows, MaxRows)
  /\ lastCall \in UsageCalls

SpecUsage == InitUsage /\ [][NextUsage]_vars

----------------------------------------------------------------------------
(* Hourly vectors.  A normalized vector is carried as 24 integer           *)
(* numerators over one positive denominator.                               *)

\* days[d.getUTCDay()]: day 0 of the epoch is a thursday
getWeekday(date) == Weekdays[((date + 4) % 7) + 1]

\* counts.reduce((a, b) => a + b, 0) of a 24-element array: the elements that
\* are 0 add nothing
SumVector(counts) == SumOver({ h \in DOMAIN counts : counts[h] # 0 }, counts)

\* counts.map(() => 0)
ZeroVector == [num |-> [h \in 1 .. 24 |-> 0], den |-> 1]

\* if (sum === 0) zeros, else counts.map((c) => c / sum)
normalizeVector(counts) ==
  LET sum == SumVector(counts)
  IN  IF sum = 0
      THEN ZeroVector
      ELSE [num |-> Evaluated([h \in 1 .. 24 |-> Sign(sum) * counts[h]]), den |-> Abs(sum)]

\* the GROUP BY toHour(timestamp) query of a date, written into
\* new Array(24).fill(0): hours without rows stay 0
hourlyCounts(table, customer_id, metricDef, date) ==
  LET rows == { i \in MatchingRows(table, customer_id, metricDef,
                                   HourOf(date, 0), HourOf(date + 1, 0) - 1) :
                  toDate(table[i].timestamp) = date }
      hours == { toHour(table[i].timestamp) : i \in rows }
      hour(h) == { i \in rows : toHour(table[i].timestamp) = h }
  IN  IF rows = {}
      THEN [h \in 1 .. 24 |-> 0]
      ELSE Evaluated([h \in 1 .. 24 |->
                        IF h - 1 \notin hours THEN 0
                        ELSE AggregateOf(table, metricDef, hour(h - 1))])

generateHourlyVector(table, customer_id, metric, date) ==
  LET metricDef == getMetric(metric)
  IN  IF metricDef = NoMetric
      THEN UnknownMetric(metric)
      ELSE LET counts == hourlyCounts(table, customer_id, metricDef, date)
           IN  [error |-> "none",
                metric |-> metric,
                date |-> date,
                weekday |-> getWeekday(date),
                vector |-> normalizeVector(counts),
                total_count |-> SumVector(counts)]

\* the rows the vectors are built from: events of acme of two types, at the
\* first and the last hour of yesterday and on the day before, without the
\* metric's property, with a negative and with a positive value; and one
\* event of globex
VectorRows ==
  { StoredRow("acme", type, ts, Properties(PropertyOf(type), vs, {})) :
      type \in {"api_request", "storage"},
      ts \in {HourOf(yesterday, 0), HourOf(yesterday, 23), HourOf(yesterday - 1, 0)},
      vs \in {{}, {0 - 1}, {MaxProperty}} }
  \cup { StoredRow("globex", "api_request", HourOf(yesterday, 0),
                   Properties("bytes", {MaxProperty}, {})) }

VectorCalls ==
  { [op |-> "generateHourlyVector", pc |-> "called", customer_id |-> c, metric |-> metric,
     date |-> yesterday, result |-> NoResult] :
      c \in Customers, metric \in MetricCodes }

\* the call of generateHourlyVector returns
GenerateHourlyVector ==
  /\ lastCall.op = "generateHourlyVector"
  /\ lastCall.pc = "called"
  /\ lastCall' = [lastCall EXCEPT
                    !.pc = "returned",
                    !.result = generateHourlyVector(events, lastCall.customer_id,
                                                    lastCall.metric, lastCall.date)]
  /\ UNCHANGED <<requestState, events, baselines>>

NextVector == GenerateHourlyVector

InitVector ==
  /\ InitIdle
  /\ clocked = FALSE
  /\ rateKey = "k_acme"
  /\ events \in Tables(VectorRows, MaxRows)
  /\ lastCall \in VectorCalls

SpecVector == InitVector /\ [][NextVector]_vars

----------------------------------------------------------------------------
(* cosineSimilarity.  The result is carried by its sign and its square,    *)
(* num / den; the vectors by their numerators (a common positive factor of *)
(* a vector does not change the result).                                   *)

\* sum of a[i] * b[i]
DotProduct(a, b) ==
  SumOver({ i \in 1 .. Len(a) : a[i] # 0 /\ b[i] # 0 }, [i \in 1 .. Len(a) |-> a[i] * b[i]])

\* the dot product returned without the division by the norms
cosineSimilarityUnnormalized(a, b) ==
  [error |-> "none", sign |-> Sign(DotProduct(a, b)),
   num |-> DotProduct(a, b) * DotProduct(a, b), den |-> 1]

cosineSimilarity(a, b) ==
  IF Len(a) # Len(b)
  THEN [error |-> "Vectors must have same length"]
  ELSE
    LET dotProduct == DotProduct(a, b)
        normA == DotProduct(a, a)
        normB == DotProduct(b, b)
    IN  IF normA = 0 \/ normB = 0      \* denominator === 0
        THEN [error |-> "none", sign |-> 0, num |-> 0, den |-> 1]
        ELSE [error |-> "none", sign |-> Sign(dotProduct),
              num |-> dotProduct * dotProduct, den |-> normA * normB]

\* the vectors cosineSimilarity is applied to
CosineVectors == UNION { [1 .. n -> (0 - 1) .. MaxElement] : n \in 1 .. MaxDim }

CosineCalls ==
  { [op |-> "cosineSimilarity", pc |-> "called", a |-> a, b |-> b, result |-> NoResult] :
      a \in CosineVectors, b \in CosineVectors }

\* the call of cosineSimilarity returns
CosineSimilarity ==
  /\ lastCall.op = "cosineSimilarity"
  /\ lastCall.pc = "called"
  /\ lastCall' = [lastCall EXCEPT !.pc = "returned",
                                  !.result = cosineSimilarity(lastCall.a, lastCall.b)]
  /\ UNCHANGED <<requestState, events, baselines>>

NextCosine == CosineSimilarity

InitCosine ==
  /\ InitIdle
  /\ clocked = FALSE
  /\ rateKey = "k_acme"
  /\ events = <<>>
  /\ lastCall \in CosineCalls

SpecCosine == InitCosine /\ [][NextCosine]_vars

----------------------------------------------------------------------------
(* Weekday baselines: buildBaselines, storeBaseline, getBaseline *)

\* the greatest common divisor of the absolute values of the elements of s
RECURSIVE GcdSet(_)
GcdSet(S) == IF S = {} THEN 0 ELSE LET x == CHOOSE y \in S : TRUE IN Gcd(x, GcdSet(S \ {x}))

GcdSeq(s) == GcdSet({ Abs(s[h]) : h \in DOMAIN s } \ {0})

\* a vector of fractions over one denominator, in lowest terms
ReducedVector(num, den) ==
  LET g == Gcd(den, GcdSeq(num))
  IN  [num |-> Evaluated([h \in 1 .. 24 |-> num[h] \div g]), den |-> den \div g]

\* the product of the denominators of the vectors vs[i], i in S
RECURSIVE DenProduct(_, _)
DenProduct(vs, S) ==
  IF S = {} THEN 1
  ELSE LET i == CHOOSE j \in S : TRUE IN vs[i].den * DenProduct(vs, S \ {i})

\* averageVectors: sum[i] += vec[i] for every vector, then s / vectors.length
\* (vs: a non-empty function from days to vectors)
averageVectors(vs) ==
  LET D == DOMAIN vs
      all == DenProduct(vs, D)
      used == { h \in 1 .. 24 : \E d \in D : vs[d].num[h] # 0 }
  IN  ReducedVector(Evaluated([h \in 1 .. 24 |->
                       IF h \notin used THEN 0
                       ELSE SumOver(D, [d \in D |-> vs[d].num[h] * (all \div vs[d].den)])]),
                    all * Cardinality(D))

\* volumes.reduce((a, b) => a + b, 0) / volumes.length, in lowest terms
averageVolume(volumes) ==
  LET D == DOMAIN volumes
      S == SumOver(D, volumes)
      g == Gcd(Abs(S), Cardinality(D))
  IN  [num |-> S \div g, den |-> Cardinality(D) \div g]

\* the value storeBaseline writes: JSON of vector and avg_volume
StoredBaseline(vector, avg_volume) ==
  [set |-> TRUE, vector |-> vector, avg_volume |-> avg_volume]

\* a lookup that takes the customer's baseline of the metric from any weekday
getBaselineOfAnyWeekday(store, customer_id, metric, weekday) ==
  LET stored == { w \in Range(Weekdays) : baselineKey(customer_id, metric, w) \in DOMAIN store }
  IN  IF stored = {} THEN NoBaseline
      ELSE store[baselineKey(customer_id, metric, CHOOSE w \in stored : TRUE)]

\* getBaseline: redis.get of the key, null when it is not set
getBaseline(store, customer_id, metric, weekday) ==
  IF baselineKey(customer_id, metric, weekday) \in DOMAIN store
  THEN store[baselineKey(customer_id, metric, weekday)]
  ELSE NoBaseline

\* the dates of the loop of buildBaselines: the 'days' days ending yesterday
BuildDates(days) == (yesterday - days + 1) .. yesterday

\* the loop of buildBaselines over the dates: the vector of every date
\* whose generateHourlyVector call returns or throws `Unknown metric`; a date
\* in failing is one whose query throws, which the catch skips as well
DayVectors(table, customer_id, metric, days, failing) ==
  Evaluated([d \in BuildDates(days) \ failing |->
               generateHourlyVector(table, customer_id, metric, d)])

\* the days that pass `vector.total_count > 0`; a day whose
\* generateHourlyVector throws is skipped by the catch
\* every day whose query answered, the days without usage included
QualifyingDaysWithIdle(vectors) ==
  { d \in DOMAIN vectors : vectors[d].error = "none" }

QualifyingDays(vectors) ==
  { d \in DOMAIN vectors : vectors[d].error = "none" /\ vectors[d].total_count > 0 }

\* the qualifying days of a weekday: weekdayVectors[weekday]
DaysOfWeekday(S, weekday) == { d \in S : getWeekday(d) = weekday }

\* a store that holds the written baseline and forgets every other key
storeBaselineAlone(store, customer_id, metric, weekday, vector, avg_volume) ==
  [k \in {baselineKey(customer_id, metric, weekday)} |-> StoredBaseline(vector, avg_volume)]

\* storeBaseline: redis.set of the key with the JSON of vector and avg_volume
storeBaseline(store, customer_id, metric, weekday, vector, avg_volume) ==
  LET key == baselineKey(customer_id, metric, weekday)
  IN  [k \in DOMAIN store \cup {key} |->
         IF k = key THEN StoredBaseline(vector, avg_volume) ELSE store[k]]

\* the loop over Object.entries(weekdayVectors), through the first n
\* weekdays: a weekday that has qualifying days S is stored with the average
\* of their vectors and of their total_counts
RECURSIVE StoreBaselines(_, _, _, _, _, _)
StoreBaselines(store, customer_id, metric, vectors, qualifying, n) ==
  IF n = 0 THEN store
  ELSE LET before == StoreBaselines(store, customer_id, metric, vectors, qualifying, n - 1)
           S == DaysOfWeekday(qualifying, Weekdays[n])
       IN  IF S = {} THEN before
           ELSE storeBaseline(before, customer_id, metric, Weekdays[n],
                              averageVectors(Evaluated([d \in S |-> vectors[d].vector])),
                              averageVolume(Evaluated([d \in S |-> vectors[d].total_count])))

\* weekdaysBuilt and daysProcessed, the weekdays taken in the order of
\* Object.entries(weekdayVectors)
BuildResult(qualifying) ==
  [error |-> "none",
   days_processed |-> Cardinality(qualifying),
   weekdays_built |-> SelectSeq(Weekdays, LAMBDA w : DaysOfWeekday(qualifying, w) # {})]

\* buildBaselines: the store after the storeBaseline calls, and the result
buildBaselines(table, store, customer_id, metric, days, failing) ==
  LET vectors == DayVectors(table, customer_id, metric, days, failing)
      qualifying == QualifyingDays(vectors)
  IN  [store |-> StoreBaselines(store, customer_id, metric, vectors, qualifying,
                                Len(Weekdays)),
       result |-> BuildResult(qualifying)]

----------------------------------------------------------------------------
(* checkFraud: thresholds in hundredths and percent; similarity is returned *)
(* in thousandths, volume_change_percent in tenths of a percent             *)

SIMILARITY_THRESHOLD == [num |-> 9, den |-> 10]
VOLUME_CHANGE_THRESHOLD == 50

\* similarity < SIMILARITY_THRESHOLD, for similarity = sign * sqrt(num / den)
isPatternAnomaly(sim) ==
  \/ sim.sign <= 0
  \/ sim.num * SIMILARITY_THRESHOLD.den * SIMILARITY_THRESHOLD.den
       < SIMILARITY_THRESHOLD.num * SIMILARITY_THRESHOLD.num * sim.den

\* volumeChange as a fraction: ((total - avg) / avg) * 100 when avg > 0,
\* else 0
volumeChangeOf(total_count, avg_volume) ==
  IF avg_volume.num > 0
  THEN [num |-> 100 * (avg_volume.den * total_count - avg_volume.num), den |-> avg_volume.num]
  ELSE [num |-> 0, den |-> 1]

\* Math.abs(volumeChange) < VOLUME_CHANGE_THRESHOLD
isVolumeNormal(vc) == Abs(vc.num) < VOLUME_CHANGE_THRESHOLD * vc.den

\* Math.round(x * scale) for x = p / q of either sign (q > 0)
RoundSigned(p, q, scale) == (2 * scale * p + q) \div (2 * q)

\* Math.round(similarity * 1000) / 1000, in thousandths
RoundedSimilarity(sim) ==
  IF sim.sign < 0 THEN 0 - RoundNegRoot(sim.num, sim.den, 1000)
  ELSE RoundRoot(sim.num, sim.den, 1000)

\* the if / else-if ladder that sets fraudType
fraudType(isPattern, isNormal) ==
  IF isPattern /\ ~isNormal THEN "both"
  ELSE IF isPattern THEN "pattern"
  ELSE IF ~isNormal THEN "volume"
  ELSE "undefined"

checkFraud(table, store, customer_id, metric, date) ==
  LET currentVector == generateHourlyVector(table, customer_id, metric, date)
      baseline == getBaseline(store, customer_id, metric, getWeekday(date))
  IN  IF currentVector.error # "none"
      THEN currentVector
      ELSE IF ~baseline.set
      THEN [error |-> "none", has_baseline |-> FALSE,
            similarity |-> 1000, volume_change_percent |-> 0,
            is_fraud |-> FALSE, fraud_type |-> "undefined",
            current_vector |-> currentVector.vector,
            baseline_vector |-> ZeroVector,
            baseline_volume |-> [num |-> 0, den |-> 1]]
      ELSE
        LET similarity == cosineSimilarity(currentVector.vector.num, baseline.vector.num)
            volumeChange == volumeChangeOf(currentVector.total_count, baseline.avg_volume)
            isPattern == isPatternAnomaly(similarity)
            isNormal == isVolumeNormal(volumeChange)
            isFraud == isPattern /\ isNormal
        IN  [error |-> "none", has_baseline |-> TRUE,
             similarity |-> RoundedSimilarity(similarity),
             volume_change_percent |-> RoundSigned(volumeChange.num, volumeChange.den, 10),
             is_fraud |-> isFraud,
             fraud_type |-> IF isFraud THEN fraudType(isPattern, isNormal) ELSE "undefined",
             current_vector |-> currentVector.vector,
             baseline_vector |-> baseline.vector,
             baseline_volume |-> baseline.avg_volume]

\* the rows baselines are built from and dates are checked against: events
\* of acme at the first hour of two fridays with negative and positive
\* bytes, at the last hour of the earlier friday and on the thursday between
\* them; and one event of globex
FraudRows ==
  { StoredRow("acme", "api_request", ts, Properties("bytes", {v}, {})) :
      ts \in {HourOf(yesterday - 7, 0), HourOf(yesterday, 0)},
      v \in {0 - 1, 1, MaxProperty} }
  \cup { StoredRow("acme", "api_request", ts, Properties("bytes", {1}, {})) :
           ts \in {HourOf(yesterday - 7, 23), HourOf(yesterday - 1, 0)} }
  \cup { StoredRow("globex", "api_request", HourOf(yesterday, 0),
                   Properties("bytes", {MaxProperty}, {})) }

\* the builds: for acme's bandwidth, of yesterday alone and of the eight
\* days ending yesterday with every query answered or with yesterday's query
\* failing; for acme's api_calls, for a metric that is not in the catalog
\* and for globex's bandwidth, of the eight days
FraudBuilds ==
  { [customer_id |-> "acme", metric |-> "bandwidth", days |-> 1, failing |-> {}],
    [customer_id |-> "acme", metric |-> "bandwidth", days |-> 8, failing |-> {}],
    [customer_id |-> "acme", metric |-> "bandwidth", days |-> 8, failing |-> {yesterday}],
    [customer_id |-> "acme", metric |-> "api_calls", days |-> 8, failing |-> {}],
    [customer_id |-> "acme", metric |-> "no_such_metric", days |-> 8, failing |-> {}],
    [customer_id |-> "globex", metric |-> "bandwidth", days |-> 8, failing |-> {}] }

\* the checks: of yesterday for the same customers and metrics, and of the
\* same weekday one week earlier for acme's bandwidth
FraudChecks ==
  { [customer_id |-> "acme", metric |-> "bandwidth", date |-> yesterday],
    [customer_id |-> "acme", metric |-> "bandwidth", date |-> yesterday - 7],
    [customer_id |-> "acme", metric |-> "api_calls", date |-> yesterday],
    [customer_id |-> "acme", metric |-> "no_such_metric", date |-> yesterday],
    [customer_id |-> "globex", metric |-> "bandwidth", date |-> yesterday] }

\* POST /v1/fraud/baselines: buildBaselines runs and returns
BuildBaselines(customer_id, metric, days, failing) ==
  LET b == buildBaselines(events, baselines, customer_id, metric, days, failing)
  IN  /\ baselines' = b.store
      /\ lastCall' = [op |-> "buildBaselines", pc |-> "returned",
                      customer_id |-> customer_id, metric |-> metric, days |-> days,
                      failing |-> failing, result |-> b.result]
      /\ UNCHANGED <<requestState, events>>

\* GET /v1/fraud/check: checkFraud runs and returns
CheckFraud(customer_id, metric, date) ==
  /\ lastCall' = [op |-> "checkFraud", pc |-> "returned",
                  customer_id |-> customer_id, metric |-> metric, date |-> date,
                  result |-> checkFraud(events, baselines, customer_id, metric, date)]
  /\ UNCHANGED <<requestState, events, baselines>>

NextFraud ==
  \/ \E b \in FraudBuilds : BuildBaselines(b.customer_id, b.metric, b.days, b.failing)
  \/ \E c \in FraudChecks : CheckFraud(c.customer_id, c.metric, c.date)

InitFraud ==
  /\ InitIdle
  /\ clocked = FALSE
  /\ rateKey = "k_acme"
  /\ events \in Tables(FraudRows, MaxRows)
  /\ lastCall = IdleCall

SpecFraud == InitFraud /\ [][NextFraud]_vars

----------------------------------------------------------------------------
(* Properties *)

Done200 == answered.pc = "done" /\ answered.status = 200

DistinctIds(q) == Cardinality(Range(q.ids)) = Len(q.ids)

RowsOf(id) == { i \in DOMAIN events : events[i].transaction_id = id }

\* C1: for every transaction id, among the admit operations (SET NX
\* commands of any requests, in any interleaving) that have replied, at most
\* one returned new ("OK"); as soon as one or more have replied without an
\* error exactly one returned new and the others duplicate, and the marker
\* is set exactly when one returned new.
C1_ExactlyOneNew ==
  \A id \in TxIds :
    /\ outcomes[id].OK <= 1
    /\ (outcomes[id].OK + outcomes[id].nil >= 1 => outcomes[id].OK = 1)
    /\ (outcomes[id].OK = 1 <=> dedup[dedupKey(id)] >= 0)

\* a request is in the middle of its dedup pipeline and has got "OK" for an
\* id; a request that arrived after it has got null for the same id and
\* has been answered, the id reported as duplicate
C1_Witness ==
  \E id \in TxIds, r \in Reqs :
    /\ req[r].pc = "dedup" /\ req[r].replies = <<"OK">> /\ req[r].ids[1] = id
    /\ Done200 /\ answered.member > req[r].member
    /\ answered.replies = <<"nil">> /\ answered.duplicates = <<id>>
    /\ outcomes[id] = [OK |-> 1, nil |-> 1]

\* C2: at one clock reading (every marker that is set is live) the events
\* table never holds two rows with one transaction_id, every row's id has
\* its marker set, and a request answered 200 inserted exactly the events
\* it reports as accepted and none of the ids it reports as duplicates.
C2_NoSecondRow ==
  /\ \A id \in TxIds :
       /\ Cardinality(RowsOf(id)) <= 1
       /\ (RowsOf(id) # {} => dedup[dedupKey(id)] >= 0)
  /\ Done200 =>
       /\ answered.resp[1].accepted = answered.inserted
       /\ answered.resp[1].accepted + answered.resp[1].duplicates = Len(answered.ids)
       /\ \A id \in Range(answered.duplicates) :
            \A i \in RowsOf(id) : events[i].by # answered.member

\* a request answered 200 with one event accepted and one duplicate, the
\* duplicate's row having been inserted by an earlier request
C2_Witness ==
  /\ Done200
  /\ answered.resp[1].accepted = 1 /\ answered.resp[1].duplicates = 1
  /\ Len(events) = 2
  /\ \E i \in DOMAIN events : events[i].by # answered.member

\* C3: once a request for distinct valid events has been answered 200 and
\* no other request is in progress, the events table holds exactly one row
\* for each of its valid events, whatever happened to earlier requests.
C3_ExactlyOnceAfterSuccess ==
  ( /\ Done200
    /\ \A q \in Reqs : ~ InFlight(q)
    /\ DistinctIds(answered) )
  => \A id \in Range(answered.ids) : Cardinality(RowsOf(id)) = 1

\* C4: no event (same transaction_id, customer and timestamp) is stored
\* twice, however much time passes between its submissions.
C4_NeverAcceptedTwice ==
  \A i \in DOMAIN events, j \in DOMAIN events :
    i # j =>
      ~ ( /\ events[i].transaction_id = events[j].transaction_id
          /\ events[i].customer_id = events[j].customer_id
          /\ events[i].timestamp = events[j].timestamp )

\* C5: when checkAndMarkTransactions has thrown for a batch of distinct ids
\* (the request ended with the dedup error), no marker that one of its
\* commands wrote remains.
C5_FailedCallLeavesNoMarker ==
  ( /\ answered.pc = "done" /\ answered.cause = "dedup"
    /\ DistinctIds(answered) ) =>
    \A i \in DOMAIN answered.replies :
      answered.replies[i] = "OK" => dedup[dedupKey(answered.ids[i])] < 0

\* C6: a request that met a store error in its admission check or in its
\* idempotency check never reaches the insert, and ends with status 500,
\* nothing inserted, no accepted or duplicate event reported; with the
\* error in the admission check it has run no dedup command either.
C6_NoPartialAcceptance ==
  /\ \A r \in Reqs :
       req[r].storeErr # "" =>
         /\ req[r].storeErr = "dedup" /\ req[r].pc = "dedup"
         /\ req[r].inserted = 0 /\ req[r].accepted = <<>>
  /\ answered.storeErr # "" =>
       /\ answered.status = 500
       /\ answered.inserted = 0
       /\ answered.duplicates = <<>>
       /\ answered.resp = <<>>
       /\ (answered.storeErr = "ratelimit" => answered.replies = <<>>)

\* a request failed in its dedup pipeline after one of its commands had
\* written a marker, while another request was being processed
C6_Witness ==
  /\ answered.storeErr = "dedup"
  /\ answered.replies = <<"OK", "err">>
  /\ \E r \in Reqs : InFlight(r)

\* C7 (as stated): an id reported as duplicate to a customer's request was
\* marked by a request of that same customer.
C7_FullyIndependent ==
  Done200 =>
    \A id \in Range(answered.duplicates) : dedupBy[id] = answered.cust

\* C7 (amended): a step changes the admission window of a customer only when
\* it is the arrival of a request of that customer, which adds its own
\* attempt, so no request changes another customer's window or admission
\* result; an id is reported as duplicate exactly on a marker that some
\* customer's request has written, the markers being shared by all
\* customers.
C7_WindowsIndependentMarkersShared ==
  /\ [] ( Done200 =>
            \A id \in Range(answered.duplicates) :
              dedup[dedupKey(id)] >= 0 /\ dedupBy[id] \in Customers )
  /\ [][ \A c \in Customers :
           (rl'[c] # rl[c] \/ rlTtl'[c] # rlTtl[c]) =>
             /\ nreq' = nreq + 1
             /\ rl'[c] \ rl[c] = { [m |-> nreq', score |-> now] }
             /\ \/ \E r \in Reqs : req'[r].member = nreq' /\ req'[r].cust = c
                \/ answered'.member = nreq' /\ answered'.cust = c ]_vars

\* a request of globex is told that an id is a duplicate because a request
\* of acme marked it, while each customer's window holds its own attempt only
C7_Witness ==
  \E id \in TxIds :
    /\ Done200 /\ answered.cust = "globex"
    /\ id \in Range(answered.duplicates)
    /\ dedupBy[id] = "acme"
    /\ Cardinality(rl["acme"]) = 1 /\ Cardinality(rl["globex"]) = 1
    /\ rl["acme"] # rl["globex"]

LimitOf(c) ==
  LET k == CHOOSE x \in DOMAIN ApiKeyRecords : ApiKeyRecords[x].customer_id = c
  IN  ApiKeyRecords[k].rate_limit

\* the calls of e's customer that returned allowed = true in the window of
\* RATE_LIMIT_WINDOW_SECONDS that ends at e's attempt timestamp
AllowedInWindow(e) ==
  { f \in allowedLog : /\ f.cust = e.cust
                       /\ f.score > e.score - RATE_LIMIT_WINDOW_SECONDS
                       /\ f.score <= e.score }

\* C8: in every trailing window of 60 s the calls of one customer that
\* returned allowed = true are at most limit, under any interleaving.
C8_AllowedWithinLimit ==
  \A e \in allowedLog : Cardinality(AllowedInWindow(e)) <= LimitOf(e.cust)

\* the live entries of the snapshot the returned call started from
LiveAtStart ==
  { e \in returned.snap : e.score > returned.nowSeconds - RATE_LIMIT_WINDOW_SECONDS }

\* C9: a call that ran with no other command and no clock advance between
\* its commands leaves the live entries plus its own attempt in the set,
\* counts them, and returns allowed = (count <= limit), remaining =
\* max(0, limit - count), the limit given and reset_in_seconds = 60; the
\* hook puts the same fields in the headers and answers 429 exactly when
\* the call is not allowed.
C9_SequentialCall ==
  (returned.pc = "done" /\ returned.alone /\ returned.status # 500) =>
    LET count == Cardinality(LiveAtStart) + 1
        remaining == IF returned.limit - count > 0 THEN returned.limit - count ELSE 0
    IN  /\ returned.post = LiveAtStart \cup { [m |-> returned.member,
                                               score |-> returned.nowSeconds] }
        /\ returned.count = count
        /\ returned.result = << [allowed |-> count <= returned.limit,
                                 limit |-> returned.limit,
                                 remaining |-> remaining,
                                 reset_in_seconds |-> 60] >>
        /\ returned.hdr = << [limit |-> returned.limit, remaining |-> remaining,
                              reset |-> 60] >>
        /\ (returned.status = 429 <=> count > returned.limit)
        /\ returned.limit = LimitOf(returned.cust)

\* a call that ran alone is denied: it dropped an entry exactly 60 s old,
\* and the entries it counted include the entry of a denied attempt
C9_Witness ==
  /\ returned.pc = "done" /\ returned.alone /\ returned.status = 429
  /\ \E e \in returned.snap :
       e.score = returned.nowSeconds - RATE_LIMIT_WINDOW_SECONDS
  /\ \E e \in LiveAtStart : \A f \in allowedLog : f.member # e.m

LiveEntries(c) ==
  { e \in rl[rateLimitKey(c)] : e.score > now - RATE_LIMIT_WINDOW_SECONDS }

InFlightCalls(c) == { a \in Callers : Busy(a) /\ att[a].cust = c }

AllowedMembers == { f.member : f \in allowedLog }

\* C10 (as stated): the live entries of a customer exceed limit by at most
\* the number of its calls in flight, so they are at most limit in every
\* state with no call in flight.
C10_LiveEntriesWithinLimit ==
  \A c \in Customers :
    Cardinality(LiveEntries(c)) <= LimitOf(c) + Cardinality(InFlightCalls(c))

\* C10 (amended): the entries of a customer that belong to calls that
\* returned allowed = true are at most limit in every state, calls in
\* flight or not; the entries of denied attempts come on top of them.
C10_AllowedEntriesWithinLimit ==
  \A c \in Customers :
    Cardinality({ e \in rl[rateLimitKey(c)] : e.m \in AllowedMembers }) <= LimitOf(c)

\* no call is in flight, the live entries are more than limit, and the
\* entries of allowed calls among them are exactly limit
C10_Witness ==
  \E c \in Customers :
    /\ InFlightCalls(c) = {}
    /\ Cardinality(LiveEntries(c)) > LimitOf(c)
    /\ Cardinality({ e \in LiveEntries(c) : e.m \in AllowedMembers }) = LimitOf(c)

AnomalyReturned ==
  lastCall.op = "checkAnomaly" /\ lastCall.pc = "returned" /\ getMetric(lastCall.metric) # NoMetric

\* the daily values have standard deviation 0: at most one sample, or all
\* samples equal
ZeroStddev(values) == \A i, j \in 1 .. Len(values) : values[i] = values[j]

\* currentValue - mean, times the sample count; the mean of no samples is 0
AboveMean(currentValue, values) ==
  IF Len(values) = 0 THEN currentValue ELSE Len(values) * currentValue - SumSeq(values)

\* C13: for baseline daily values with standard deviation 0 (0 or 1 samples
\* included) checkAnomaly raises no error and returns z_score 0 when the
\* current value equals the baseline mean, +infinity when it is above and
\* -infinity when it is below, and in the infinite cases severity is critical
\* and is_anomaly is true.
C13_ZeroStddevZScore ==
  (AnomalyReturned /\ ZeroStddev(lastCall.values)) =>
    LET r == lastCall.result
        d == AboveMean(lastCall.currentValue, lastCall.values)
    IN  /\ r.error = "none"
        /\ d = 0 => (~r.z_score.inf /\ r.z_score.hundredths = 0)
        /\ d > 0 => (r.z_score.inf /\ r.z_score.sign = 1)
        /\ d < 0 => (r.z_score.inf /\ r.z_score.sign = 0 - 1)
        /\ d # 0 => (r.severity = "critical" /\ r.is_anomaly)

\* the returned z_score, as an absolute value in hundredths, is at least a / b
ReturnedZAtLeast(a, b) ==
  LET z == lastCall.result.z_score
  IN  z.inf \/ Abs(z.hundredths) * b >= 100 * a

\* C14 as stated: in every checkAnomaly result, with the z_score that is
\* returned, severity is critical iff |z_score| >= threshold, warning iff
\* 0.66 * threshold <= |z_score| < threshold, normal otherwise, and
\* is_anomaly is true exactly when severity is critical.
C14_SeverityOfReturnedZ ==
  AnomalyReturned =>
    LET r == lastCall.result
        t == lastCall.threshold
    IN  /\ r.severity = "critical" <=> ReturnedZAtLeast(t, 100)
        /\ r.severity = "warning" <=>
             (ReturnedZAtLeast(66 * t, 10000) /\ ~ReturnedZAtLeast(t, 100))
        /\ r.severity \in {"critical", "warning", "normal"}
        /\ r.is_anomaly <=> r.severity = "critical"

\* the exact z-score of the returned call is at least a / b in absolute value,
\* compared by squares
ExactZAtLeast(a, b) ==
  LET n == Len(lastCall.values)
      S == SumSeq(lastCall.values)
      D == n * lastCall.currentValue - S
      Q == SumSeq([i \in 1 .. n |-> (n * lastCall.values[i] - S) * (n * lastCall.values[i] - S)])
      f == Reduced(a, b)
  IN  IF n = 0 THEN a = 0
      ELSE IF n > 1 /\ Q > 0 THEN D * D * (n - 1) * f.den * f.den >= f.num * f.num * Q
      ELSE D # 0 \/ a = 0

\* C14 amended: in every checkAnomaly result severity is critical iff the
\* z-score before rounding is at least the threshold in absolute value,
\* warning iff it is at least 0.66 * threshold and below the threshold,
\* normal otherwise, and is_anomaly is true exactly when severity is critical.
C14_SeverityOfComputedZ ==
  AnomalyReturned =>
    LET r == lastCall.result
        t == lastCall.threshold
    IN  /\ r.severity = "critical" <=> ExactZAtLeast(t, 100)
        /\ r.severity = "warning" <=>
             (ExactZAtLeast(66 * t, 10000) /\ ~ExactZAtLeast(t, 100))
        /\ r.severity \in {"critical", "warning", "normal"}
        /\ r.is_anomaly <=> r.severity = "critical"

\* a result whose returned z_score reaches the warning level although the
\* computed one does not
C14_Witness ==
  /\ AnomalyReturned
  /\ lastCall.result.severity = "normal"
  /\ ReturnedZAtLeast(66 * lastCall.threshold, 10000)
  /\ ~ExactZAtLeast(66 * lastCall.threshold, 10000)

\* C15: with the default threshold of 3, severity is normal when |z| < 2,
\* warning when 2 <= |z| < 3 and critical when |z| >= 3.
C15_DefaultThresholdBands ==
  (AnomalyReturned /\ lastCall.threshold = 100 * DEFAULT_THRESHOLD) =>
    LET r == lastCall.result
    IN  /\ ~ExactZAtLeast(2, 1) => r.severity = "normal"
        /\ (ExactZAtLeast(2, 1) /\ ~ExactZAtLeast(3, 1)) => r.severity = "warning"
        /\ ExactZAtLeast(3, 1) => r.severity = "critical"

UsageReturned ==
  lastCall.op = "queryUsage" /\ lastCall.pc = "returned" /\ getMetric(lastCall.metric) # NoMetric

\* the rows of the queried customer, metric and range that lack the grouping
\* property
LackingGroupProperty ==
  { i \in MatchingRows(events, lastCall.customer_id, getMetric(lastCall.metric),
                       lastCall.start, lastCall.end) :
      lastCall.group_by \notin DOMAIN events[i].properties }

\* C16: for every metric (COUNT, SUM, MAX), customer and range, queryUsage
\* with group_by returns the value that queryUsage returns without group_by
\* for the same range, the breakdown values add up to it, and events that
\* lack the group property are counted under the '(empty)' bucket.
C16_GroupedEqualsUngrouped ==
  (UsageReturned /\ lastCall.group_by # "") =>
    LET r == lastCall.result
        ungrouped == queryUsage(events, lastCall.customer_id, lastCall.metric,
                                lastCall.start, lastCall.end, "")
    IN  /\ r.value = ungrouped.value
        /\ SumOver(DOMAIN r.breakdown, r.breakdown) = r.value
        /\ LackingGroupProperty # {} => "(empty)" \in DOMAIN r.breakdown

VectorReturned ==
  /\ lastCall.op = "generateHourlyVector"
  /\ lastCall.pc = "returned"
  /\ getMetric(lastCall.metric) # NoMetric

\* C18: every HourlyVector produced by generateHourlyVector, for any metric
\* (COUNT, SUM or MAX) and any stored events, has exactly 24 elements that
\* are all non-negative; they sum to 1 when the day's total_count is
\* non-zero, and the vector is all zeros if and only if total_count is zero.
C18_VectorNormalized ==
  VectorReturned =>
    LET v == lastCall.result.vector
        total == lastCall.result.total_count
    IN  /\ Len(v.num) = 24
        /\ \A h \in 1 .. 24 : v.num[h] >= 0
        /\ total # 0 => SumSeq(v.num) = v.den
        /\ (\A h \in 1 .. 24 : v.num[h] = 0) <=> total = 0

NonNegative(v) == \A i \in 1 .. Len(v) : v[i] >= 0

ZeroNorm(v) == \A i \in 1 .. Len(v) : v[i] = 0

CosineReturned == lastCall.op = "cosineSimilarity" /\ lastCall.pc = "returned"

FraudChecked ==
  /\ lastCall.op = "checkFraud"
  /\ lastCall.result.error = "none"

\* C11: every checkFraud result computed against an existing baseline has
\* is_fraud = (similarity < 0.9) and not (|volume_change_percent| >= 50), and
\* its fraud_type is 'pattern' when only the pattern condition holds,
\* 'volume' when only the volume condition holds and 'both' when both hold.
C11_FraudClassification ==
  (FraudChecked /\ lastCall.result.has_baseline) =>
    LET r == lastCall.result
        pattern == r.similarity < 900
        volume == Abs(r.volume_change_percent) >= 500
    IN  /\ r.is_fraud = (pattern /\ ~volume)
        /\ (pattern /\ ~volume) => r.fraud_type = "pattern"
        /\ (~pattern /\ volume) => r.fraud_type = "volume"
        /\ (pattern /\ volume) => r.fraud_type = "both"

\* C12: when no baseline is stored for the customer, the metric (one of the
\* catalog) and the weekday of the date, checkFraud returns normally, with
\* the neutral result: similarity 1.0, volume_change_percent 0, is_fraud
\* false and no fraud_type, whatever the usage of that date.
C12_NeutralWithoutBaseline ==
  ( /\ lastCall.op = "checkFraud"
    /\ getMetric(lastCall.metric) # NoMetric
    /\ baselineKey(lastCall.customer_id, lastCall.metric, getWeekday(lastCall.date))
         \notin DOMAIN baselines ) =>
    /\ lastCall.result.error = "none"
    /\ ~lastCall.result.has_baseline
    /\ lastCall.result.similarity = 1000
    /\ lastCall.result.volume_change_percent = 0
    /\ ~lastCall.result.is_fraud
    /\ lastCall.result.fraud_type = "undefined"

\* a check of a date with usage, answered without a baseline of its weekday
\* while the same customer and metric have a baseline of another weekday
C12_Witness ==
  /\ FraudChecked
  /\ ~lastCall.result.has_baseline
  /\ lastCall.result.current_vector # ZeroVector
  /\ \E w \in Range(Weekdays) :
       baselineKey(lastCall.customer_id, lastCall.metric, w) \in DOMAIN baselines

\* C17: a checkFraud or buildBaselines call whose metric code is not in the
\* metrics catalog fails with the unknown-metric error; it does not return a
\* normal result.
C17_UnknownMetricFails ==
  ( /\ lastCall.op \in {"checkFraud", "buildBaselines"}
    /\ getMetric(lastCall.metric) = NoMetric ) =>
    lastCall.result.error = "Unknown metric"

BaselinesBuilt ==
  /\ lastCall.op = "buildBaselines"
  /\ getMetric(lastCall.metric) # NoMetric

\* the days of the last build that are left after the days in S are taken
\* out: for each weekday that has one, the stored baseline is the mean of
\* their vectors and of their total_counts; weekdays_built lists exactly
\* those weekdays, each once, and days_processed counts the days
BuiltFrom(vectors, remaining) ==
  LET weekdays == { getWeekday(d) : d \in remaining }
  IN  /\ lastCall.result.error = "none"
      /\ lastCall.result.days_processed = Cardinality(remaining)
      /\ Range(lastCall.result.weekdays_built) = weekdays
      /\ Len(lastCall.result.weekdays_built) = Cardinality(weekdays)
      /\ \A w \in weekdays :
           /\ baselineKey(lastCall.customer_id, lastCall.metric, w) \in DOMAIN baselines
           /\ baselines[baselineKey(lastCall.customer_id, lastCall.metric, w)] =
             LET S == DaysOfWeekday(remaining, w)
             IN  StoredBaseline(averageVectors([d \in S |-> vectors[d].vector]),
                                averageVolume([d \in S |-> vectors[d].total_count]))

\* C20: buildBaselines examines the 'days' days that end yesterday, leaves
\* out the days whose total_count is zero and the days whose query fails,
\* and for each weekday that has a remaining day stores the element-wise
\* mean of those days' vectors with the mean of their total_counts;
\* weekdays_built lists exactly those weekdays and days_processed is the
\* number of the remaining days.
C20_BaselinesOfRemainingDays ==
  BaselinesBuilt =>
    LET vectors == DayVectors(events, lastCall.customer_id, lastCall.metric,
                              lastCall.days, lastCall.failing)
    IN  BuiltFrom(vectors, { d \in DOMAIN vectors : vectors[d].total_count # 0 })

\* the key of a baseline the last build lists in weekdays_built
BuiltKeys(call) ==
  { baselineKey(call.customer_id, call.metric, call.result.weekdays_built[i]) :
      i \in 1 .. Len(call.result.weekdays_built) }

\* C29: a buildBaselines call writes only the baselines of its customer and
\* metric for the weekdays it lists in weekdays_built; every other stored
\* baseline (a weekday without a qualifying day, another customer, another
\* metric) is still stored with the value it had before the call.
C29_BuildWritesOnlyBuiltWeekdays ==
  [][ lastCall'.op = "buildBaselines" =>
        /\ DOMAIN baselines \subseteq DOMAIN baselines'
        /\ \A k \in DOMAIN baselines' \ BuiltKeys(lastCall') :
             k \in DOMAIN baselines /\ baselines'[k] = baselines[k] ]_vars

\* a build has returned that wrote a weekday while the store holds, for the
\* same customer and metric, the baseline of a weekday it did not list, and
\* a baseline of another metric
C29_Witness ==
  /\ lastCall.op = "buildBaselines"
  /\ lastCall.result.weekdays_built # <<>>
  /\ \E w \in Range(Weekdays) :
       /\ baselineKey(lastCall.customer_id, lastCall.metric, w) \in DOMAIN baselines
       /\ baselineKey(lastCall.customer_id, lastCall.metric, w) \notin BuiltKeys(lastCall)
  /\ \E m \in MetricCodes \ {lastCall.metric}, w \in Range(Weekdays) :
       baselineKey(lastCall.customer_id, m, w) \in DOMAIN baselines

\* C30: with baselines written only by buildBaselines, a checkFraud result
\* for a date whose total_count is 0 has is_fraud = false, with or without a
\* stored baseline of that weekday.
C30_NoFraudWithoutUsage ==
  ( /\ FraudChecked
    /\ generateHourlyVector(events, lastCall.customer_id, lastCall.metric,
                            lastCall.date).total_count = 0 ) =>
    ~lastCall.result.is_fraud

\* a date without usage has been checked against a stored baseline
C30_Witness ==
  /\ FraudChecked
  /\ lastCall.result.has_baseline
  /\ lastCall.result.current_vector = ZeroVector
  /\ generateHourlyVector(events, lastCall.customer_id, lastCall.metric,
                          lastCall.date).total_count = 0

\* C24: of two checkRateLimit calls of a customer that has limit - 1 live
\* entries, run one after the other, the first (it starts from fewer than
\* limit live entries) is allowed and the second (it starts from limit live
\* entries) is denied: a call that ran alone is allowed exactly when it
\* started from fewer than limit live entries. Run concurrently, both can
\* record before either counts and both are denied (C24_Witness).
C24_SequentialFillsFreeSlot ==
  (returned.pc = "done" /\ returned.alone /\ returned.status # 500) =>
    /\ returned.result[1].allowed <=> Cardinality(LiveAtStart) < returned.limit
    /\ returned.status = 429 <=> Cardinality(LiveAtStart) >= returned.limit

\* the entries of c's set that were recorded by other calls than a and b
OtherEntries(c, a, b) == { e \in rl[rateLimitKey(c)] : e.m \notin {a, b} }

\* a customer had limit - 1 live entries, two calls recorded before either
\* counted, one has returned denied (429) and the other has counted more
\* than limit and is about to return denied as well
C24_Witness ==
  \E b \in Callers :
    /\ returned.pc = "done" /\ returned.status = 429 /\ ~returned.alone
    /\ att[b].pc = "expire" /\ att[b].cust = returned.cust
    /\ att[b].count = att[b].limit + 1
    /\ returned.count = returned.limit + 1
    /\ LET others == OtherEntries(returned.cust, returned.member, att[b].member)
       IN  /\ Cardinality(others) = returned.limit - 1
           /\ Cardinality(rl[rateLimitKey(returned.cust)]) = returned.limit + 1
           /\ \A e \in others : e.score > returned.nowSeconds - RATE_LIMIT_WINDOW_SECONDS

\* C28: a checkRateLimit call (limit >= 1) made when the customer's latest
\* attempt is at least 60 s old, and running with no other attempt beside
\* it, is allowed; so the retry of a denied caller after the advertised
\* reset_in_seconds is admitted.
C28_AllowedAfterQuietWindow ==
  ( /\ returned.pc = "done" /\ returned.alone /\ returned.status # 500
    /\ returned.limit >= 1
    /\ \A e \in returned.snap :
         e.score + RATE_LIMIT_WINDOW_SECONDS <= returned.nowSeconds ) =>
    /\ returned.status = 0
    /\ returned.result[1].allowed

\* a call is allowed that found the entries of an earlier denied attempt
\* and of an allowed one, made exactly the advertised 60 s before it
C28_Witness ==
  /\ returned.pc = "done" /\ returned.alone /\ returned.status = 0
  /\ \E e \in returned.snap :
       /\ e.m \notin AllowedMembers
       /\ e.score + returned.result[1].reset_in_seconds = returned.nowSeconds
  /\ \E e \in returned.snap : e.m \in AllowedMembers
  /\ \A e \in returned.snap :
       e.score + RATE_LIMIT_WINDOW_SECONDS <= returned.nowSeconds

----------------------------------------------------------------------------
(* The routes and the two preHandler hooks in front of every route. A path *)
(* is the sequence of its segments; for the registered routes a prefix of  *)
(* characters (url.startsWith) is a prefix of segments.                    *)

\* a registered route: `names` is where its schema puts customer_id (query,
\* body, the events of the batch, or nowhere), `doc` the table of the API
\* reference that lists it
Route(method, path, names, doc) ==
  [method |-> method, path |-> path, names |-> names, doc |-> doc]

ROUTES ==
  { Route("POST", <<"v1", "events">>, "events", "authenticated"),
    Route("GET", <<"v1", "usage">>, "query", "authenticated"),
    Route("GET", <<"v1", "metrics">>, "none", "public"),
    Route("GET", <<"v1", "anomalies", "check">>, "query", "authenticated"),
    Route("GET", <<"v1", "pricing">>, "none", "public"),
    Route("GET", <<"v1", "pricing", "api_calls">>, "none", "public"),
    Route("POST", <<"v1", "invoices", "calculate">>, "body", "authenticated"),
    Route("POST", <<"v1", "billing", "run">>, "body", "authenticated"),
    Route("POST", <<"v1", "fraud", "baselines", "build">>, "body", "authenticated"),
    Route("GET", <<"v1", "fraud", "check">>, "query", "authenticated"),
    Route("GET", <<"v1", "dashboard", "data">>, "query", "authenticated"),
    Route("POST", <<"v1", "admin", "keys">>, "body", "admin"),
    Route("POST", <<"v1", "admin", "keys", "revoke">>, "none", "admin"),
    Route("GET", <<"health">>, "none", "public"),
    Route("GET", <<"dashboard", "">>, "none", "public") }

PUBLIC_ROUTES == { <<"health">>, <<"v1", "metrics">> }

PUBLIC_PREFIXES ==
  { <<"dashboard">>, <<"v1", "dashboard">>, <<"v1", "pricing">>, <<"v1", "admin">> }

startsWith(url, prefix) ==
  Len(url) >= Len(prefix) /\ SubSeq(url, 1, Len(prefix)) = prefix

isPublicRoute(url) ==
  \/ url \in PUBLIC_ROUTES
  \/ \E prefix \in PUBLIC_PREFIXES : startsWith(url, prefix)

\* the customer_ids of the events of a batch, one or more
RECURSIVE CustomerSeqs(_)
CustomerSeqs(n) ==
  IF n = 0 THEN { <<>> }
  ELSE { Append(s, c) : s \in CustomerSeqs(n - 1), c \in Customers }

\* the requests that pass the schema of their route, with each key a client
\* may present; query, body: the customer_id named there (NoCustomer: the
\* request has none); events: the customer_ids of body.events
RouteRequests ==
  { [route |-> r, apiKey |-> k, query |-> q, body |-> b, events |-> e] :
      r \in ROUTES, k \in ApiKeys, q \in Customers \cup {NoCustomer},
      b \in Customers \cup {NoCustomer},
      e \in UNION { CustomerSeqs(n) : n \in 0 .. MaxBatch } }

SchemaValid(request) ==
  /\ (request.query # NoCustomer) = (request.route.names = "query")
  /\ (request.body # NoCustomer) = (request.route.names = "body")
  /\ (request.events # <<>>) = (request.route.names = "events")

\* a hook that looks at the first event of the batch only
authenticateHookOnFirstEvent(request) ==
  LET keyRecord == lookupApiKey(request.apiKey)
      authCustomerId == keyRecord.customer_id
      foreign == { i \in 1 .. Len(request.events) :
                     i = 1 /\ request.events[i] # authCustomerId }
      sent(status) == [status |-> status, auth |-> authCustomerId]
  IN  IF isPublicRoute(request.route.path) THEN [status |-> 0, auth |-> NoCustomer]
      ELSE IF request.apiKey = "k_missing" THEN [status |-> 401, auth |-> NoCustomer]
      ELSE IF authCustomerId = NoCustomer THEN [status |-> 401, auth |-> NoCustomer]
      ELSE IF request.query # NoCustomer /\ request.query # authCustomerId THEN sent(403)
      ELSE IF request.body # NoCustomer /\ request.body # authCustomerId THEN sent(403)
      ELSE IF foreign # {} THEN sent(403)
      ELSE sent(0)

\* authenticateHook on a request of any route: the status it replied with
\* (0: it sent no reply) and request.auth (NoCustomer: not attached)
authenticateHookOn(request) ==
  LET keyRecord == lookupApiKey(request.apiKey)
      authCustomerId == keyRecord.customer_id
      foreign == { i \in 1 .. Len(request.events) : request.events[i] # authCustomerId }
      sent(status) == [status |-> status, auth |-> authCustomerId]
  IN  IF isPublicRoute(request.route.path) THEN [status |-> 0, auth |-> NoCustomer]
      ELSE IF request.apiKey = "k_missing" THEN [status |-> 401, auth |-> NoCustomer]
      ELSE IF authCustomerId = NoCustomer THEN [status |-> 401, auth |-> NoCustomer]
      ELSE IF request.query # NoCustomer /\ request.query # authCustomerId THEN sent(403)
      ELSE IF request.body # NoCustomer /\ request.body # authCustomerId THEN sent(403)
      ELSE IF foreign # {} THEN sent(403)
      ELSE sent(0)

\* the outcome of the preHandler chain: the status a hook replied with (0:
\* none did), whether checkRateLimit ran, and whether the route handler
\* runs next
RouteOutcome(status, auth, limited, handled) ==
  [status |-> status, auth |-> auth, limited |-> limited, handled |-> handled]

\* a request arrives at a route
Arrive(request) ==
  /\ IF lastCall.op = "request" THEN lastCall.pc = "returned" ELSE TRUE
  /\ nreq < MaxReq
  /\ nreq' = nreq + 1
  /\ lastCall' = [op |-> "request", pc |-> "pending", request |-> request,
                  result |-> NoResult]
  /\ UNCHANGED <<now, rateKey, clocks, nticks, clocked, dedup, dedupBy, rl, rlTtl,
                 events, backups, nevents, req, answered, outcomes, natt, att,
                 returned, allowedLog, baselines>>

\* authenticateHook, then rateLimitHook (the checkRateLimit pipeline as one
\* unit; ok: the pipeline returned replies, cardOk: the ZCARD reply has no
\* error); a hook that sent a reply ends the chain
PreHandlers(ok, cardOk) ==
  /\ lastCall.op = "request" /\ lastCall.pc = "pending"
  /\ LET request == lastCall.request
         a == authenticateHookOn(request)
         c == rateLimitKey(a.auth)
         out == checkRateLimit(rl[c], nreq, lookupApiKey(request.apiKey).rate_limit, now)
         result ==
           IF a.status # 0 THEN RouteOutcome(a.status, a.auth, FALSE, FALSE)
           ELSE IF a.auth = NoCustomer THEN RouteOutcome(0, a.auth, FALSE, TRUE)
           ELSE IF ~ ok \/ ~ cardOk THEN RouteOutcome(500, a.auth, TRUE, FALSE)
           ELSE IF ~ out.result.allowed THEN RouteOutcome(429, a.auth, TRUE, FALSE)
           ELSE RouteOutcome(0, a.auth, TRUE, TRUE)
     IN  /\ lastCall' = [lastCall EXCEPT !.pc = "returned", !.result = result]
         /\ IF result.limited /\ ok
              THEN /\ rl' = [rl EXCEPT ![c] = out.zset]
                   /\ rlTtl' = [rlTtl EXCEPT ![c] = out.ttlAt]
              ELSE /\ UNCHANGED <<rl, rlTtl>>
                   /\ (ok /\ cardOk)
  /\ UNCHANGED <<now, rateKey, clocks, nticks, clocked, dedup, dedupBy,
                 events, backups, nreq, nevents, req, answered, outcomes, natt, att,
                 returned, allowedLog, baselines>>

NextRoute ==
  \/ \E request \in { q \in RouteRequests : SchemaValid(q) } : Arrive(request)
  \/ \E ok \in BOOLEAN, cardOk \in BOOLEAN : (~ ok => cardOk) /\ PreHandlers(ok, cardOk)

InitRoute == InitStore /\ clocked = FALSE /\ rateKey = "k_acme"

SpecRoute == InitRoute /\ [][NextRoute]_vars

RouteReturned == lastCall.op = "request" /\ lastCall.pc = "returned"

\* the request presents a key that is provisioned
KeyProvisioned(request) == lookupApiKey(request.apiKey).customer_id # NoCustomer

\* C21: a request to a route the API reference lists as authenticated that
\* carries no X-API-Key, or a key that is not provisioned, is answered 401
\* and runs neither the rate limiter nor the route handler; a request
\* without a provisioned key reaches a handler only on the routes listed as
\* public or admin.
C21_DocumentedRoutesRequireKey ==
  (RouteReturned /\ ~ KeyProvisioned(lastCall.request)) =>
    /\ lastCall.request.route.doc = "authenticated" =>
         /\ lastCall.result.status = 401
         /\ ~ lastCall.result.limited
         /\ ~ lastCall.result.handled
    /\ lastCall.result.handled => lastCall.request.route.doc \in {"public", "admin"}

\* the customers the request names other than c
ForeignNamed(request, c) ==
  ({request.query, request.body} \cup Range(request.events)) \ {c, NoCustomer}

----------------------------------------------------------------------------
(* runBillingCycle: the invoice id and the idempotency key. The lines and  *)
(* amounts of the invoice do not enter the key and are left out; a         *)
(* template string is the sequence of the parts it joins.                  *)

MaxPeriod == 3
MaxRuns == 2

\* the values uuidv4().slice(0, 8) may take in a call
UuidPrefixes == {"a7b3c9d1", "5e2f8a40"}

\* billing periods: start and end timestamps
BillingPeriods == { <<s, e>> : s \in 0 .. MaxPeriod, e \in 0 .. MaxPeriod }

\* calculateInvoice: invoice_id is `inv_${uuidv4().slice(0, 8)}`
calculateInvoice(customer_id, start, end, uuid, t) ==
  [invoice_id |-> <<"inv", uuid>>,
   customer_id |-> customer_id,
   period |-> [start |-> start, end |-> end],
   generated_at |-> t,
   status |-> "draft"]

\* `${customer_id}_${start}_${end}`
periodKey(customer_id, start, end) == <<customer_id, start, end>>

\* `meterflow_${invoice.invoice_id}_${periodKey}`
idempotencyKey(invoice, key) == <<"meterflow">> \o invoice.invoice_id \o key

runBillingCycle(customer_id, start, end, uuid, t) ==
  LET invoice == calculateInvoice(customer_id, start, end, uuid, t)
  IN  [invoice |-> invoice,
       stripe_operations |->
         [mode |-> "dry_run",
          summary |-> [idempotency_key |->
                         idempotencyKey(invoice, periodKey(customer_id, start, end))]]]

\* POST /v1/billing/run: the billing cycle of the drawn customer and period
\* runs once more; uuid is the value uuidv4 yields in this run
RunBillingCycle(uuid) ==
  /\ lastCall.op = "runBillingCycle"
  /\ Len(lastCall.runs) < MaxRuns
  /\ lastCall' = [lastCall EXCEPT !.runs =
                    Append(@, runBillingCycle(lastCall.customer_id, lastCall.start,
                                              lastCall.end, uuid, now))]
  /\ UNCHANGED <<requestState, events, baselines>>

NextBilling == \E uuid \in UuidPrefixes : RunBillingCycle(uuid)

InitBilling ==
  /\ InitIdle
  /\ clocked = FALSE
  /\ rateKey = "k_acme"
  /\ events = <<>>
  /\ \E c \in Customers, p \in BillingPeriods :
       lastCall = [op |-> "runBillingCycle", customer_id |-> c,
                   start |-> p[1], end |-> p[2], runs |-> <<>>]

SpecBilling == InitBilling /\ [][NextBilling]_vars

\* C23: the results of two runs of the billing cycle for the same
\* customer_id, start and end carry the same idempotency_key in their
\* summary.
C23_SameIdempotencyKey ==
  lastCall.op = "runBillingCycle" =>
    \A i, j \in 1 .. Len(lastCall.runs) :
      lastCall.runs[i].stripe_operations.summary.idempotency_key =
        lastCall.runs[j].stripe_operations.summary.idempotency_key

----------------------------------------------------------------------------
(* The order of the admission check, the idempotency check and acceptance *)

\* the rate limiter has answered for request q (its headers are set)
AdmissionRan(q) == q.hdr # <<>>

\* every SET NX of request q's valid events has replied
GuardRan(q) == q.ids # <<>> /\ Len(q.replies) = Len(q.ids)

\* C25 (as stated): the Idempotency Guard runs first and the Admission
\* Controller second: once the rate limiter has answered for a request, the
\* SET NX commands of its events have already replied.
C25_GuardBeforeAdmission ==
  /\ \A r \in Reqs : AdmissionRan(req[r]) => GuardRan(req[r])
  /\ (answered.pc = "done" /\ AdmissionRan(answered)) => GuardRan(answered)

\* C25 (amended): the Admission Controller runs first and the Idempotency
\* Guard second: a SET NX is executed only for a request the rate limiter
\* has answered for, and rows are inserted only by a request for which both
\* have run.
C25_AdmissionBeforeGuard ==
  /\ [] ( \A r \in Reqs :
            req[r].pc \in {"dedup", "insert", "backup"} => AdmissionRan(req[r]) )
  /\ [][ (dedup' # dedup \/ outcomes' # outcomes) =>
           \E r \in Reqs : /\ req[r].pc = "dedup" /\ AdmissionRan(req[r])
                           /\ ~ GuardRan(req[r])
                           /\ req'[r] # req[r] ]_vars
  /\ [][ events' # events =>
           \E r \in Reqs : /\ req[r].pc = "insert"
                           /\ AdmissionRan(req[r]) /\ GuardRan(req[r])
                           /\ Range(Rows(req[r].accepted, req[r].member))
                                = Range(events') \ Range(events) ]_vars

\* a request whose rate limiter answer is in, with its SET NX commands not
\* yet executed, while the rows of another request are stored
C25_Witness ==
  \E r \in Reqs :
    /\ req[r].pc = "dedup" /\ AdmissionRan(req[r]) /\ req[r].replies = <<>>
    /\ events # <<>>

\* C26: a request answered 200 whose valid events name an id k >= 2 times,
\* the first SET NX of that id having found it new, has stored exactly one
\* row of that id and reports the other k - 1 as duplicates.
C26_RepeatedIdAcceptedOnce ==
  Done200 =>
    \A id \in TxIds :
      LET occ == { i \in 1 .. Len(answered.ids) : answered.ids[i] = id }
          first == CHOOSE i \in occ : \A j \in occ : i <= j
      IN  (Cardinality(occ) >= 2 /\ answered.replies[first] = "OK") =>
            /\ Cardinality({ i \in RowsOf(id) : events[i].by = answered.member }) = 1
            /\ Cardinality({ i \in 1 .. Len(answered.duplicates) :
                               answered.duplicates[i] = id }) = Cardinality(occ) - 1
            /\ answered.resp[1].accepted >= 1

\* C27: the step in which a request is answered 429 sets no idempotency
\* marker, runs no SET NX, stores no row and writes no backup; it changes
\* the admission window of the request's customer only, where it records the
\* denied attempt. The ids of the batch are as new afterwards as before.
C27_DeniedChangesWindowOnly ==
  [][ (answered'.pc = "done" /\ answered'.status = 429 /\ nreq' = nreq + 1) =>
        /\ dedup' = dedup /\ dedupBy' = dedupBy /\ outcomes' = outcomes
        /\ events' = events /\ backups' = backups
        /\ \A r \in Reqs : req'[r] = req[r]
        /\ \A c \in Customers \ {answered'.cust} : rl'[c] = rl[c] /\ rlTtl'[c] = rlTtl[c]
        /\ rl'[answered'.cust] \ rl[answered'.cust]
             = { [m |-> answered'.member, score |-> now] } ]_vars

\* a request has been answered 429 with remaining 0 while no marker is set
\* and no row is stored; its attempt is in its customer's window
C27_Witness ==
  /\ answered.pc = "done" /\ answered.status = 429
  /\ answered.hdr[1].remaining = 0
  /\ \A id \in TxIds : dedup[dedupKey(id)] < 0
  /\ events = <<>>
  /\ \E e \in rl[answered.cust] : e.m = answered.member

====
